---- MODULE Spec2Model ----
(***************************************************************************)
(* A model of the cache / merge / write-queue core of react-native-onyx:   *)
(*   - SyncQueue   (src/lib/SyncQueue.ts)                                  *)
(*   - fastMerge   (src/lib/fastMerge.ts, on top of the deepmerge package) *)
(*   - OnyxCache   (src/lib/Logger.ts, class OnyxCache)                    *)
(*   - Onyx        (connect, disconnect, set, merge, mergeCollection,      *)
(*                  update: the public operations the unit tests drive)    *)
(* Each component has its own specification over the shared variables; the *)
(* variables of the other components stay at their initial values.         *)
(***************************************************************************)
EXTENDS Integers, Sequences, FiniteSets, TLC

\* Number of items pushed to the SyncQueue in one behaviour.
MaxItems == 3
\* Largest limit given to setRecentKeysLimit.
MaxLimit == 1
\* Largest number of keys in the data given to one OnyxCache.merge call.
MaxPatchKeys == 2
\* Number of promises captured by captureTask in one behaviour.
MaxTasks == 2
\* Number of callers of get() in one behaviour.
MaxCallers == 3
\* Number of writes (set, merge, mergeCollection) submitted in one behaviour.
MaxOps == 2

VARIABLES
    \* ---- SyncQueue ----
    queue,          \* this.queue: the waiting items, oldest first
    isProcessing,   \* this.isProcessing
    exec,           \* per item: how far the worker execution and its reaction chain got
    outcome,        \* per item: how this.run(data) ended
    promise,        \* per item: state of the promise push() returned
    pushed,         \* number of push() calls made so far; items are numbered in push order
    discarded,      \* history: the items abort() removed from the queue
    lastOp,         \* history: the operation that produced the current state
    \* ---- fastMerge ----
    target,         \* first argument of fastMerge
    source,         \* second argument of fastMerge
    merged,         \* what fastMerge(target, source) returned (NotRun before the call)
    \* ---- OnyxCache ----
    storageKeys,        \* this.storageKeys: the known keys
    recentKeys,         \* this.recentKeys: keys in access order, most recent last
    storageMap,         \* this.storageMap: the cached values, a function on the cached keys
    maxRecentKeysSize,  \* this.maxRecentKeysSize
    cacheOp,            \* history: the cache operation that produced the current state
    opKeys,             \* history: the keys that operation was called with, in order
                        \* (for removeLeastRecentlyUsedKeys: the keys it dropped)
    opValues,           \* history: the values that operation was called with, by key
    cacheRet,           \* history: the value that operation returned
    \* ---- OnyxCache pending tasks and the callers of get() ----
    pendingPromises,    \* this.pendingPromises: task name -> captured promise (NoTask: none)
    tasks,              \* per captured promise: name, key read, state, outcome, value, awaiters
    calls,              \* per caller of get(): key, how it was served, by which task, result
    reads,              \* history: number of Storage.getItem calls made per key
    \* ---- Onyx: subscriptions and writes ----
    subs,               \* per connection id: state, key, initWithStoredValues,
                        \* waitForCollectionCallback
    scheduled,          \* the initial deliveries connect() scheduled and that have not run
    invoked,            \* per connection id: the callback calls the latest step made
    ops,                \* per write: method, keys, values, stage, promise
    writeQueue,         \* the writes waiting for the write sequencer, oldest first
    busy,               \* the write sequencer is executing a write
    store,              \* the values the storage adapter holds
    updateOps,          \* the writes the update() call submitted
    updatePromise,      \* state of the promise update() returned
    expected,           \* history: per key, the value the writes submitted so far give
                        \* when they are applied one after the other in submission order
    onyxOp              \* history: the Onyx step that produced the current state

queueVars == <<queue, isProcessing, exec, outcome, promise, pushed, discarded, lastOp>>
mergeVars == <<target, source, merged>>
cacheVars == <<storageKeys, recentKeys, storageMap, maxRecentKeysSize, cacheOp, opKeys,
              opValues, cacheRet>>
taskVars == <<pendingPromises, tasks, calls, reads>>
onyxVars == <<subs, scheduled, invoked, ops, writeQueue, busy, store, updateOps,
             updatePromise, expected, onyxOp>>
notQueueVars == <<mergeVars, cacheVars, taskVars, onyxVars>>
notMergeVars == <<queueVars, cacheVars, taskVars, onyxVars>>
notCacheVars == <<queueVars, mergeVars, taskVars, onyxVars>>
notTaskVars == <<queueVars, mergeVars, onyxVars>>
notOnyxVars == <<queueVars, mergeVars, taskVars>>

vars == <<queue, isProcessing, exec, outcome, promise, pushed, discarded, lastOp,
          target, source, merged,
          storageKeys, recentKeys, storageMap, maxRecentKeysSize, cacheOp, opKeys,
          opValues, cacheRet,
          pendingPromises, tasks, calls, reads,
          subs, scheduled, invoked, ops, writeQueue, busy, store, updateOps,
          updatePromise, expected, onyxOp>>

Items == 1..MaxItems

(***************************************************************************)
(* Values: JSON-like values as tagged records [t, v].                      *)
(***************************************************************************)
Num(n) == [t |-> "num", v |-> n]
Null == [t |-> "null", v |-> 0]
Undefined == [t |-> "undefined", v |-> 0]
Arr(s) == [t |-> "arr", v |-> s]
Obj(f) == [t |-> "obj", v |-> f]
\* the result of a call that threw a TypeError
TypeError == [t |-> "TypeError", v |-> 0]
\* no call made yet
NotRun == [t |-> "notrun", v |-> 0]

EmptyObj == Obj([k \in {} |-> Null])
Keys(o) == DOMAIN o.v

\* the OnyxCache right after construction
CacheInit ==
    /\ storageKeys = {}
    /\ recentKeys = <<>>
    /\ storageMap = [k \in {} |-> Null]
    /\ maxRecentKeysSize = 0
    /\ cacheOp = "init"
    /\ opKeys = <<>>
    /\ opValues = [k \in {} |-> Undefined]
    /\ cacheRet = Undefined

\* the keys get() is called with and the names of their tasks
TaskKeys == {"k1", "k2"}
GetTaskName(key) == IF key = "k1" THEN "get:k1" ELSE "get:k2"
\* the task names other users of captureTask choose
ClientTaskNames == {"task", "sync"}
TaskNames == {GetTaskName(key) : key \in TaskKeys} \cup ClientTaskNames
Tasks == 1..MaxTasks
Callers == 1..MaxCallers
\* no captured promise: the property is undefined
NoTask == 0
\* the result of awaiting a promise that rejected
Rejected == [t |-> "rejected", v |-> 0]

\* no task captured, no get() called
TaskInit ==
    /\ pendingPromises = [name \in TaskNames |-> NoTask]
    /\ tasks = [c \in Tasks |->
                  [name |-> "", key |-> "", state |-> "unused", outcome |-> "none",
                   value |-> NotRun, awaiters |-> 0]]
    /\ calls = [i \in Callers |->
                  [key |-> "", via |-> "none", task |-> NoTask, result |-> NotRun,
                   during |-> {}]]
    /\ reads = [key \in TaskKeys |-> 0]

\* the connection ids connect() hands out and the writes, in submission order
SubIds == {"s1", "s2"}
OpIds == 1..MaxOps
\* no connection under this id yet
NoSub == [state |-> "unused", key |-> "", init |-> TRUE, wait |-> FALSE]
\* a write whose promise has resolved
DoneOp == [method |-> "", keys |-> <<>>, values |-> [k \in {} |-> Undefined],
           stage |-> "done", promise |-> "resolved"]
\* no write under this number yet
NoOp == [method |-> "", keys |-> <<>>, values |-> [k \in {} |-> Undefined],
         stage |-> "unused", promise |-> "none"]

\* Onyx after init() with nothing stored, nothing connected, nothing written
OnyxInit ==
    /\ subs = [id \in SubIds |-> NoSub]
    /\ scheduled = <<>>
    /\ invoked = [id \in SubIds |-> <<>>]
    /\ ops = [i \in OpIds |-> NoOp]
    /\ writeQueue = <<>>
    /\ busy = FALSE
    /\ store = [k \in {} |-> Null]
    /\ updateOps = {}
    /\ updatePromise = "none"
    /\ expected = [k \in {} |-> Null]
    /\ onyxOp = "init"

\* fastMerge is not called
MergeIdle == target = NotRun /\ source = NotRun /\ merged = NotRun

(***************************************************************************)
(* SyncQueue                                                               *)
(***************************************************************************)

\* Stages of one item:
\*   "idle"      not pushed yet
\*   "queued"    in this.queue (or removed from it by abort), run() not called
\*   "running"   run(data) returned a promise that has not settled
\*   "settled"   that promise settled, no reaction has run yet
\*   "thenDone"  the .then(resolve) reaction ran
\*   "catchDone" the .catch(reject) reaction ran
\*   "done"      the .finally(...) reaction ran
\*   "threw"     run(data) threw synchronously instead of returning a promise
Started == {"running", "settled", "thenDone", "catchDone", "done", "threw"}
Settled == {"settled", "thenDone", "catchDone", "done", "threw"}

\* constructor
QueueInit ==
    /\ queue = <<>>
    /\ isProcessing = FALSE
    /\ exec = [i \in Items |-> "idle"]
    /\ outcome = [i \in Items |-> "none"]
    /\ promise = [i \in Items |-> "none"]
    /\ pushed = 0
    /\ discarded = {}
    /\ lastOp = "init"

\* [mutant of Process] process() without its isProcessing test: it takes the
\* next item while an execution is in flight
ProcessWhileProcessing(q, ip) ==
    IF q = <<>> THEN [started |-> 0, queue |-> q, isProcessing |-> ip]
    ELSE [started |-> Head(q), queue |-> Tail(q), isProcessing |-> TRUE]

\* process(), up to the call of this.run: the item it takes from the queue
\* (0 when it returns early), and the queue and flag it leaves.
Process(q, ip) ==
    IF ip THEN [started |-> 0, queue |-> q, isProcessing |-> ip]
    ELSE IF q = <<>> THEN [started |-> 0, queue |-> q, isProcessing |-> ip]
    ELSE [started |-> Head(q), queue |-> Tail(q), isProcessing |-> TRUE]

\* .then(resolve): the push promise after the reaction, given the worker's outcome
ThenResult(o, p) == IF o = "resolve" THEN "resolved" ELSE p

\* [mutant of CatchResult] .catch(resolve): a rejection resolves the push promise
CatchResultResolves(o, p) == IF o = "reject" THEN "resolved" ELSE p

\* .catch(reject)
CatchResult(o, p) == IF o = "reject" THEN "rejected" ELSE p

\* push(data) where the worker, if process() calls it, returns a promise
PushOk ==
    /\ pushed < MaxItems
    /\ LET i == pushed + 1
           r == Process(Append(queue, i), isProcessing)
       IN /\ pushed' = i
          /\ queue' = r.queue
          /\ isProcessing' = r.isProcessing
          /\ promise' = [promise EXCEPT ![i] = "pending"]
          /\ exec' = [j \in Items |->
                        IF j = r.started THEN "running"
                        ELSE IF j = i THEN "queued" ELSE exec[j]]
          /\ outcome' = outcome
    /\ lastOp' = "push"
    /\ UNCHANGED notQueueVars
    /\ UNCHANGED discarded

\* push(data) where process() calls the worker and the worker throws synchronously:
\* the exception leaves process() and the promise executor, which rejects the
\* promise push() returns; isProcessing stays true.
PushThrow ==
    /\ pushed < MaxItems
    /\ LET i == pushed + 1
           r == Process(Append(queue, i), isProcessing)
       IN /\ r.started # 0
          /\ pushed' = i
          /\ queue' = r.queue
          /\ isProcessing' = r.isProcessing
          /\ promise' = [promise EXCEPT ![i] = "rejected"]
          /\ exec' = [j \in Items |->
                        IF j = r.started THEN "threw"
                        ELSE IF j = i THEN "queued" ELSE exec[j]]
          /\ outcome' = [outcome EXCEPT ![r.started] = "throw"]
    /\ lastOp' = "push"
    /\ UNCHANGED notQueueVars
    /\ UNCHANGED discarded

\* [mutant of Abort] resets the flag but leaves the waiting items in the queue
AbortKeepsQueue ==
    /\ queue' = queue
    /\ isProcessing' = FALSE
    /\ discarded' = discarded \cup {queue[n] : n \in 1..Len(queue)}
    /\ lastOp' = "abort"
    /\ UNCHANGED notQueueVars
    /\ UNCHANGED <<exec, outcome, promise, pushed>>

\* abort()
Abort ==
    /\ queue' = <<>>
    /\ isProcessing' = FALSE
    /\ discarded' = discarded \cup {queue[n] : n \in 1..Len(queue)}
    /\ lastOp' = "abort"
    /\ UNCHANGED notQueueVars
    /\ UNCHANGED <<exec, outcome, promise, pushed>>

\* the promise returned by this.run(data) settles
Settle(i, o) ==
    /\ exec[i] = "running"
    /\ exec' = [exec EXCEPT ![i] = "settled"]
    /\ outcome' = [outcome EXCEPT ![i] = o]
    /\ lastOp' = "settle"
    /\ UNCHANGED notQueueVars
    /\ UNCHANGED <<queue, isProcessing, promise, pushed, discarded>>

\* the reaction of .then(resolve)
ThenStep(i) ==
    /\ exec[i] = "settled"
    /\ exec' = [exec EXCEPT ![i] = "thenDone"]
    /\ promise' = [promise EXCEPT ![i] = ThenResult(outcome[i], promise[i])]
    /\ lastOp' = "then"
    /\ UNCHANGED notQueueVars
    /\ UNCHANGED <<queue, isProcessing, outcome, pushed, discarded>>

\* the reaction of .catch(reject)
CatchStep(i) ==
    /\ exec[i] = "thenDone"
    /\ exec' = [exec EXCEPT ![i] = "catchDone"]
    /\ promise' = [promise EXCEPT ![i] = CatchResult(outcome[i], promise[i])]
    /\ lastOp' = "catch"
    /\ UNCHANGED notQueueVars
    /\ UNCHANGED <<queue, isProcessing, outcome, pushed, discarded>>

\* [mutant of FinallyOk] the cleanup is chained with .then, so it runs only after
\* a successful execution
FinallyOnlyOnSuccess(i) ==
    /\ exec[i] = "catchDone"
    /\ LET r == IF outcome[i] = "resolve"
                THEN Process(queue, FALSE)
                ELSE [started |-> 0, queue |-> queue, isProcessing |-> isProcessing]
       IN /\ queue' = r.queue
          /\ isProcessing' = r.isProcessing
          /\ exec' = [j \in Items |->
                        IF j = i THEN "done"
                        ELSE IF j = r.started THEN "running" ELSE exec[j]]
          /\ outcome' = outcome
    /\ lastOp' = "finally"
    /\ UNCHANGED notQueueVars
    /\ UNCHANGED <<promise, pushed, discarded>>

\* the reaction of .finally: isProcessing = false; process(), whose worker call
\* (if any) returns a promise
FinallyOk(i) ==
    /\ exec[i] = "catchDone"
    /\ LET r == Process(queue, FALSE)
       IN /\ queue' = r.queue
          /\ isProcessing' = r.isProcessing
          /\ exec' = [j \in Items |->
                        IF j = i THEN "done"
                        ELSE IF j = r.started THEN "running" ELSE exec[j]]
          /\ outcome' = outcome
    /\ lastOp' = "finally"
    /\ UNCHANGED notQueueVars
    /\ UNCHANGED <<promise, pushed, discarded>>

\* the reaction of .finally where the worker called by process() throws
\* synchronously: nothing catches it, the item's promise is never settled and
\* isProcessing stays true.
FinallyThrow(i) ==
    /\ exec[i] = "catchDone"
    /\ LET r == Process(queue, FALSE)
       IN /\ r.started # 0
          /\ queue' = r.queue
          /\ isProcessing' = r.isProcessing
          /\ exec' = [j \in Items |->
                        IF j = i THEN "done"
                        ELSE IF j = r.started THEN "threw" ELSE exec[j]]
          /\ outcome' = [outcome EXCEPT ![r.started] = "throw"]
    /\ lastOp' = "finally"
    /\ UNCHANGED notQueueVars
    /\ UNCHANGED <<promise, pushed, discarded>>

QueueNext ==
    \/ PushOk
    \/ PushThrow
    \/ Abort
    \/ \E i \in Items, o \in {"resolve", "reject"} : Settle(i, o)
    \/ \E i \in Items : ThenStep(i)
    \/ \E i \in Items : CatchStep(i)
    \/ \E i \in Items : FinallyOk(i)
    \/ \E i \in Items : FinallyThrow(i)

QueueSpecInit == QueueInit /\ MergeIdle /\ CacheInit /\ TaskInit /\ OnyxInit

QueueSpec == QueueSpecInit /\ [][QueueNext]_vars

\* The queue when abort() is never called and the worker keeps its contract
\* ("must return a promise") and every execution settles: the event loop runs
\* every reaction that is ready.
QueueLiveNext ==
    \/ PushOk
    \/ \E i \in Items, o \in {"resolve", "reject"} : Settle(i, o)
    \/ \E i \in Items : ThenStep(i)
    \/ \E i \in Items : CatchStep(i)
    \/ \E i \in Items : FinallyOk(i)

QueueLiveSpec ==
    /\ QueueSpecInit
    /\ [][QueueLiveNext]_vars
    /\ \A i \in Items :
          /\ WF_vars(\E o \in {"resolve", "reject"} : Settle(i, o))
          /\ WF_vars(ThenStep(i))
          /\ WF_vars(CatchStep(i))
          /\ WF_vars(FinallyOk(i))

Running == {i \in Items : exec[i] = "running"}
PromiseSettled(i) == promise[i] \in {"resolved", "rejected"}

\* C1: for items A pushed before B, the worker's execution for A has settled
\* before the execution for B begins.
C1_OrderedExecutions ==
    \A a, b \in Items :
        (a < b /\ exec[a] \in Started /\ exec[b] \in Started) => exec[a] \in Settled

\* C2: at most one worker execution is in flight at any moment, in every
\* interleaving of push(), abort() and settlements.
C2_OneAtATime == Cardinality(Running) <= 1

\* C3: the promise push(item) returned settles only after the worker's execution
\* for that item has ended, and with that execution's outcome.
C3_PromiseFollowsOwnExecution ==
    \A i \in Items :
        /\ promise[i] = "resolved" =>
              exec[i] \in {"thenDone", "catchDone", "done"} /\ outcome[i] = "resolve"
        /\ promise[i] = "rejected" =>
              \/ exec[i] \in {"catchDone", "done"} /\ outcome[i] = "reject"
              \/ exec[i] = "threw" /\ outcome[i] = "throw"

\* C3 witness: two items settled with different outcomes, each with its own.
C3_Witness ==
    \E i, j \in Items :
        /\ promise[i] = "rejected" /\ outcome[i] = "reject"
        /\ promise[j] = "resolved" /\ outcome[j] = "resolve"

\* C4: without abort() and with every execution settling, every pushed item is
\* eventually passed to the worker and its push promise eventually settles, also
\* behind items whose execution rejected.
C4_EveryItemSettles ==
    \A i \in Items :
        (promise[i] = "pending") ~> (exec[i] \in Settled /\ PromiseSettled(i))

\* C4 witness: an item queued behind a rejected execution has been run and settled.
C4_Witness ==
    \E i, j \in Items :
        /\ i < j
        /\ outcome[i] = "reject"
        /\ exec[j] = "done" /\ PromiseSettled(j)

\* C5: right after abort() the queue is empty and isProcessing is false; an item
\* abort() removed from the queue is never passed to the worker and its push
\* promise never settles.
C5_AbortDiscards ==
    /\ lastOp = "abort" => (queue = <<>> /\ ~isProcessing)
    /\ \A i \in discarded : exec[i] = "queued" /\ promise[i] = "pending"

\* C5 witness: an item was discarded and an item pushed after it has since been
\* run to the end.
C5_Witness ==
    \E i \in discarded : \E j \in Items : i < j /\ exec[j] = "done"

(***************************************************************************)
(* fastMerge: deepmerge(target, source, {isMergeableObject, arrayMerge})    *)
(***************************************************************************)
RECURSIVE deepmerge(_, _)
RECURSIVE mergeObject(_, _)
RECURSIVE cloneUnlessOtherwiseSpecified(_)

\* Array.isArray
IsArray(val) == val.t = "arr"

\* a non-null value of type 'object' that is neither a RegExp nor a Date:
\* plain objects and arrays
isMergeableObject(val) == val.t \in {"obj", "arr"}

\* [mutant of arrayMerge] deepmerge's default: the arrays are concatenated
arrayMergeConcat(destinationArray, sourceArray) ==
    Arr(destinationArray.v \o sourceArray.v)

arrayMerge(destinationArray, sourceArray) == sourceArray

\* deepmerge: emptyTarget
emptyTarget(val) == IF IsArray(val) THEN Arr(<<>>) ELSE EmptyObj

\* deepmerge: `property in object`, false when the operator throws (a primitive)
propertyIsOnObject(object, property) ==
    object.t \in {"obj", "date", "regexp"} /\ property \in Keys(object)

\* deepmerge: Object.keys of a value that is not an array; undefined and null
\* have none (Object.keys throws on them, see mergeObject), a number has none
getKeys(val) == IF val.t \in {"obj", "date", "regexp"} THEN Keys(val) ELSE {}

cloneUnlessOtherwiseSpecified(value) ==
    IF isMergeableObject(value) THEN deepmerge(emptyTarget(value), value) ELSE value

\* [mutant of mergeObject] a shallow merge: a key of source always takes
\* source's value
mergeObjectShallow(tgt, src) ==
    IF src.t \in {"null", "undefined"} THEN TypeError
    ELSE LET tk == IF isMergeableObject(tgt) THEN getKeys(tgt) ELSE {}
             sk == getKeys(src)
         IN Obj([key \in tk \cup sk |->
                   IF key \in sk THEN src.v[key] ELSE tgt.v[key]])

\* deepmerge: mergeObject, called with two values that are not arrays
mergeObject(tgt, src) ==
    IF src.t \in {"null", "undefined"} THEN TypeError
    ELSE LET tk == IF isMergeableObject(tgt) THEN getKeys(tgt) ELSE {}
             sk == getKeys(src)
         IN Obj([key \in tk \cup sk |->
                   IF key \in sk
                   THEN IF propertyIsOnObject(tgt, key) /\ isMergeableObject(src.v[key])
                        THEN deepmerge(tgt.v[key], src.v[key])
                        ELSE cloneUnlessOtherwiseSpecified(src.v[key])
                   ELSE cloneUnlessOtherwiseSpecified(tgt.v[key])])

deepmerge(tgt, src) ==
    IF IsArray(src) # IsArray(tgt) THEN cloneUnlessOtherwiseSpecified(src)
    ELSE IF IsArray(src) THEN arrayMerge(tgt, src)
    ELSE mergeObject(tgt, src)

fastMerge(tgt, src) == deepmerge(tgt, src)

\* The values fastMerge is applied to: leaves, objects of leaves, and objects
\* that nest an object under the key "a".
Leaf == {Num(1), Num(2), Null, Undefined, Arr(<<1, 2, 3>>), Arr(<<4>>)}
MergeKeys == {"a", "b"}
ObjectsOver(ks, vals) == {Obj(f) : f \in UNION {[d -> vals] : d \in SUBSET ks}}
Obj1 == ObjectsOver(MergeKeys, Leaf)
Obj2 ==
    {Obj(f) : f \in UNION {
        {g \in [d -> Leaf \cup Obj1] : \A k \in d : (g[k] \in Obj1 => k = "a")}
        : d \in SUBSET MergeKeys}}
MergeValues == Leaf \cup Obj2

MergeInit ==
    /\ target \in MergeValues
    /\ source \in MergeValues
    /\ merged = NotRun

\* one call of fastMerge(target, source)
DoMerge ==
    /\ merged = NotRun
    /\ merged' = fastMerge(target, source)
    /\ UNCHANGED <<target, source>>
    /\ UNCHANGED notMergeVars

MergeNext == DoMerge

MergeSpecInit == QueueInit /\ MergeInit /\ CacheInit /\ TaskInit /\ OnyxInit

MergeSpec == MergeSpecInit /\ [][MergeNext]_vars

RECURSIVE HasArray(_)
HasArray(val) ==
    \/ val.t = "arr"
    \/ val.t = "obj" /\ \E k \in Keys(val) : HasArray(val.v[k])

\* m holds exactly p's array wherever p holds one
RECURSIVE HoldsArraysOf(_, _)
HoldsArraysOf(p, m) ==
    IF p.t = "arr" THEN m = p
    ELSE IF p.t = "obj"
    THEN /\ m.t = "obj"
         /\ \A k \in Keys(p) : k \in Keys(m) /\ HoldsArraysOf(p.v[k], m.v[k])
    ELSE TRUE

\* the recursive key union of two objects in which p's leaves win
RECURSIVE KeyUnion(_, _)
KeyUnion(b, p) ==
    Obj([k \in Keys(b) \cup Keys(p) |->
           IF k \notin Keys(p) THEN b.v[k]
           ELSE IF k \in Keys(b) /\ b.v[k].t = "obj" /\ p.v[k].t = "obj"
                THEN KeyUnion(b.v[k], p.v[k])
                ELSE p.v[k]])

\* C6: wherever the patch holds an array, at the top level or nested inside
\* objects, the merged result holds exactly the patch's array there.
C6_ArraysReplaced ==
    merged # NotRun => HoldsArraysOf(source, merged)

\* C6 witness: {a: [1,2,3]} merged with {a: [4]} gave {a: [4]}.
C6_Witness ==
    /\ target = Obj([k \in {"a"} |-> Arr(<<1, 2, 3>>)])
    /\ source = Obj([k \in {"a"} |-> Arr(<<4>>)])
    /\ merged = Obj([k \in {"a"} |-> Arr(<<4>>)])

\* C7: for plain objects without arrays, fastMerge is the recursive key union in
\* which the patch's leaves win.
C7_KeyUnion ==
    (/\ merged # NotRun
     /\ target.t = "obj" /\ source.t = "obj"
     /\ ~HasArray(target) /\ ~HasArray(source))
    => merged = KeyUnion(target, source)

\* C7 witness: a nested object merged key by key, a key only in the base kept,
\* a leaf of the base replaced by the patch's.
C7_Witness ==
    /\ target = Obj([k \in {"a", "b"} |->
                      IF k = "a" THEN Obj([j \in {"a", "b"} |-> Num(1)]) ELSE Num(1)])
    /\ source = Obj([k \in {"a"} |-> Obj([j \in {"a"} |-> Num(2)])])
    /\ merged = Obj([k \in {"a", "b"} |->
                      IF k = "a"
                      THEN Obj([j \in {"a", "b"} |-> IF j = "a" THEN Num(2) ELSE Num(1)])
                      ELSE Num(1)])

\* C8: when the patch is not a plain mapping (a primitive or an array), the
\* result of the merge is the patch itself.
C8_NonObjectPatchWins ==
    (merged # NotRun /\ source.t # "obj") => merged = source

(***************************************************************************)
(* OnyxCache                                                               *)
(***************************************************************************)
CacheKeys == {"k1", "k2", "k3"}
\* values given to set() and values given per key to merge()
SetValues == {Undefined, Obj([k \in {"a"} |-> Num(1)])}
PatchValues == {Null, Obj([k \in {"b"} |-> Num(1)])}
\* arguments of merge() that are not key/value objects
InvalidData == {Num(1), Null, Undefined, Arr(<<1, 2, 3>>)}

SeqToSet(s) == {s[n] : n \in 1..Len(s)}
Without(s, key) == SelectSeq(s, LAMBDA x : x # key)

\* the key lists of the data objects given to merge(): distinct keys, in the
\* order Object.keys lists them
KeyLists ==
    {ks \in UNION {[1..n -> CacheKeys] : n \in 0..MaxPatchKeys} :
        \A m, n \in 1..Len(ks) : m # n => ks[m] # ks[n]}

\* getAllKeys()
getAllKeys == storageKeys

\* this.storageMap[key]: undefined when the map has no such property
MapValue(map, key) == IF key \in DOMAIN map THEN map[key] ELSE Undefined

\* no values: the operation takes none
NoValues == [k \in {} |-> Undefined]

\* what the history variables record of a call
Called(op, keys, values, ret) ==
    /\ cacheOp' = op
    /\ opKeys' = keys
    /\ opValues' = values
    /\ cacheRet' = ret

\* hasCacheForKey(key) asking the known keys instead of the value map
hasCacheForKeyAsksKnownKeys(key) == key \in storageKeys

\* hasCacheForKey(key): isDefined(this.storageMap[key])
hasCacheForKey(key) == key \in DOMAIN storageMap /\ storageMap[key] # Undefined

\* addToAccessedKeys(key) without the delete: a key already in the set stays
\* where it is
addToAccessedKeysNoDelete(rk, key) ==
    IF \E n \in 1..Len(rk) : rk[n] = key THEN rk ELSE Append(rk, key)

\* addToAccessedKeys(key): delete, then add at the end
addToAccessedKeys(rk, key) == Append(Without(rk, key), key)

RECURSIVE AccessAll(_, _)
\* _.each(mergedKeys, key => this.addToAccessedKeys(key))
AccessAll(rk, ks) ==
    IF ks = <<>> THEN rk ELSE AccessAll(addToAccessedKeys(rk, Head(ks)), Tail(ks))

\* [...this.recentKeys].slice(-n); slice(-0) is slice(0), the whole list
NegativeSlice(s, n) ==
    IF n = 0 \/ n >= Len(s) THEN s ELSE SubSeq(s, Len(s) - n + 1, Len(s))

\* the map without the given keys
DeleteKeys(map, ks) == [k \in DOMAIN map \ ks |-> map[k]]

\* addKey(key)
AddKey(key) ==
    /\ storageKeys' = storageKeys \cup {key}
    /\ UNCHANGED <<recentKeys, storageMap, maxRecentKeysSize>>
    /\ Called("addKey", <<key>>, NoValues, Undefined)
    /\ UNCHANGED notCacheVars

\* what getValue(key) does to the cache
GetValueEffect(key) ==
    /\ recentKeys' = addToAccessedKeys(recentKeys, key)
    /\ UNCHANGED <<storageKeys, storageMap, maxRecentKeysSize>>
    /\ Called("getValue", <<key>>, NoValues, MapValue(storageMap, key))

\* getValue(key)
GetValue(key) ==
    /\ GetValueEffect(key)
    /\ UNCHANGED notCacheVars

\* [mutant of Set] the key is not added to the storage keys list
SetWithoutAddKey(key, value) ==
    /\ recentKeys' = addToAccessedKeys(recentKeys, key)
    /\ storageMap' = [k \in DOMAIN storageMap \cup {key} |->
                        IF k = key THEN value ELSE storageMap[k]]
    /\ UNCHANGED <<storageKeys, maxRecentKeysSize>>
    /\ Called("set", <<key>>, [k \in {key} |-> value], value)
    /\ UNCHANGED notCacheVars

\* set(key, value) replacing the whole value map by the one entry
SetReplacesMap(key, value) ==
    /\ storageKeys' = storageKeys \cup {key}
    /\ recentKeys' = addToAccessedKeys(recentKeys, key)
    /\ storageMap' = [k \in {key} |-> value]
    /\ UNCHANGED maxRecentKeysSize
    /\ Called("set", <<key>>, [k \in {key} |-> value], value)
    /\ UNCHANGED notCacheVars

\* what set(key, value) does to the cache
SetEffect(key, value) ==
    /\ storageKeys' = storageKeys \cup {key}
    /\ recentKeys' = addToAccessedKeys(recentKeys, key)
    /\ storageMap' = [k \in DOMAIN storageMap \cup {key} |->
                        IF k = key THEN value ELSE storageMap[k]]
    /\ UNCHANGED maxRecentKeysSize
    /\ Called("set", <<key>>, [k \in {key} |-> value], value)

\* set(key, value)
Set(key, value) ==
    /\ SetEffect(key, value)
    /\ UNCHANGED notCacheVars

\* drop(key) that forgets this.recentKeys.delete(key)
DroppedStaysRecent(ks) ==
    [storageMap |-> DeleteKeys(storageMap, ks),
     storageKeys |-> storageKeys \ ks,
     recentKeys |-> recentKeys]

\* the three fields after drop(key) for every key of ks
Dropped(ks) ==
    [storageMap |-> DeleteKeys(storageMap, ks),
     storageKeys |-> storageKeys \ ks,
     recentKeys |-> SelectSeq(recentKeys, LAMBDA x : x \notin ks)]

\* what drop(key) does to the cache
DropEffect(key) ==
    /\ storageMap' = Dropped({key}).storageMap
    /\ storageKeys' = Dropped({key}).storageKeys
    /\ recentKeys' = Dropped({key}).recentKeys
    /\ UNCHANGED maxRecentKeysSize
    /\ Called("drop", <<key>>, NoValues, Undefined)

\* drop(key)
Drop(key) ==
    /\ DropEffect(key)
    /\ UNCHANGED notCacheVars

\* _.isObject(data): an object (arrays included), not null, not a primitive
isObject(data) == data.t \in {"obj", "arr"}

\* the guard of merge() without its array test
MergeRejectsNonObjects(data) == ~isObject(data)

\* the guard of merge(): !_.isObject(data) || _.isArray(data)
MergeRejects(data) == ~isObject(data) \/ IsArray(data)

\* merge(data) with data an object: its keys ks (in Object.keys order) and values
MergeEffect(ks, values) ==
    /\ ~MergeRejects(Obj(values))
    /\ storageMap' = fastMerge(Obj(storageMap), Obj(values)).v
    /\ storageKeys' = getAllKeys \cup SeqToSet(ks)
    /\ recentKeys' = AccessAll(recentKeys, ks)
    /\ UNCHANGED maxRecentKeysSize
    /\ Called("merge", ks, values, Undefined)

\* merge(data) as Object.assign({}, this.storageMap, data): no deep merge
MergeAssignsShallowly(ks, values) ==
    /\ ~MergeRejects(Obj(values))
    /\ storageMap' = [k \in DOMAIN storageMap \cup SeqToSet(ks) |->
                        IF k \in SeqToSet(ks) THEN values[k] ELSE storageMap[k]]
    /\ storageKeys' = getAllKeys \cup SeqToSet(ks)
    /\ recentKeys' = AccessAll(recentKeys, ks)
    /\ UNCHANGED maxRecentKeysSize
    /\ Called("merge", ks, values, Undefined)
    /\ UNCHANGED notCacheVars

\* merge(data) called on the cache alone
Merge(ks, values) ==
    /\ MergeEffect(ks, values)
    /\ UNCHANGED notCacheVars

\* merge(data) with data that is not an object, or an array: the call throws
\* before it changes anything
MergeThrows(data) ==
    /\ MergeRejects(data)
    /\ Called("merge threw", <<>>, NoValues, Undefined)
    /\ UNCHANGED <<storageKeys, recentKeys, storageMap, maxRecentKeysSize>>
    /\ UNCHANGED notCacheVars

\* the keys removeLeastRecentlyUsedKeys() drops
KeysToRemove ==
    IF Len(recentKeys) <= maxRecentKeysSize THEN {}
    ELSE DOMAIN storageMap \ SeqToSet(NegativeSlice(recentKeys, maxRecentKeysSize))

\* removeLeastRecentlyUsedKeys()
RemoveLeastRecentlyUsedKeys ==
    /\ storageMap' = Dropped(KeysToRemove).storageMap
    /\ storageKeys' = Dropped(KeysToRemove).storageKeys
    /\ recentKeys' = Dropped(KeysToRemove).recentKeys
    /\ UNCHANGED maxRecentKeysSize
    /\ Called("removeLeastRecentlyUsedKeys",
              SelectSeq(recentKeys, LAMBDA x : x \in KeysToRemove), NoValues, Undefined)
    /\ UNCHANGED notCacheVars

\* setRecentKeysLimit(limit)
SetRecentKeysLimit(limit) ==
    /\ maxRecentKeysSize' = limit
    /\ UNCHANGED <<storageKeys, recentKeys, storageMap>>
    /\ Called("setRecentKeysLimit", <<>>, NoValues, Undefined)
    /\ UNCHANGED notCacheVars

CacheNext ==
    \/ \E key \in CacheKeys : AddKey(key)
    \/ \E key \in CacheKeys : GetValue(key)
    \/ \E key \in CacheKeys, value \in SetValues : Set(key, value)
    \/ \E key \in CacheKeys : Drop(key)
    \/ \E ks \in KeyLists : \E values \in [SeqToSet(ks) -> PatchValues] : Merge(ks, values)
    \/ \E data \in InvalidData : MergeThrows(data)
    \/ RemoveLeastRecentlyUsedKeys
    \/ \E limit \in 0..MaxLimit : SetRecentKeysLimit(limit)

CacheSpecInit == QueueInit /\ MergeIdle /\ CacheInit /\ TaskInit /\ OnyxInit

CacheSpec == CacheSpecInit /\ [][CacheNext]_vars

\* C9: every key that has an entry in the value map is a known key.
C9_CachedKeysAreKnown == DOMAIN storageMap \subseteq getAllKeys

\* C9 witness: a key cached by set and a key cached by merge, next to a known key
\* without a cached value.
C9_Witness ==
    /\ "k1" \in DOMAIN storageMap /\ storageMap["k1"] = Obj([k \in {"a"} |-> Num(1)])
    /\ "k2" \in DOMAIN storageMap /\ storageMap["k2"] = Obj([k \in {"b"} |-> Num(1)])
    /\ "k3" \in getAllKeys \ DOMAIN storageMap

\* C10: removeLeastRecentlyUsedKeys() leaves the known-keys set unchanged.
C10_EvictionKeepsKnownKeys ==
    [][cacheOp' = "removeLeastRecentlyUsedKeys" => storageKeys' = storageKeys]_vars

Last(s) == s[Len(s)]
NoDuplicates(s) == \A m, n \in 1..Len(s) : m # n => s[m] # s[n]
\* the key's entry in the value map is what it was
SameEntry(k) ==
    /\ (k \in DOMAIN storageMap') <=> (k \in DOMAIN storageMap)
    /\ MapValue(storageMap', k) = MapValue(storageMap, k)
\* the key is known exactly if it was
SameKnown(k) == (k \in storageKeys') <=> (k \in storageKeys)

\* C11: after removeLeastRecentlyUsedKeys() the recently-used key set holds at
\* most maxRecentKeysSize keys.
C11_RecentKeysWithinLimit ==
    cacheOp = "removeLeastRecentlyUsedKeys" => Len(recentKeys) <= maxRecentKeysSize

\* the recently used keys that have a cached value, least recent first
CachedByRecency == SelectSeq(recentKeys, LAMBDA x : x \in DOMAIN storageMap)

\* the last touched key keeps its entry; the least recently touched key and the
\* least recently touched cached key have no entry afterwards
EvictionKeepsLastDropsFirst ==
    /\ SameEntry(Last(recentKeys))
    /\ Head(recentKeys) \notin DOMAIN storageMap'
    /\ Head(CachedByRecency) \notin DOMAIN storageMap'

\* C12: for every configured maximum, when more keys are cached than the
\* maximum and another key than the least recently touched one was touched
\* last, removeLeastRecentlyUsedKeys() keeps the cached value of the last
\* touched key and drops that of the least recently touched key.
C12_KeepsLastDropsFirst ==
    [][(/\ cacheOp' = "removeLeastRecentlyUsedKeys"
        /\ Cardinality(DOMAIN storageMap) > maxRecentKeysSize
        /\ Head(CachedByRecency) # Last(recentKeys))
       => EvictionKeepsLastDropsFirst]_vars

\* the same for every configured maximum of at least 1
KeepsLastDropsFirstFromOne ==
    [][(/\ cacheOp' = "removeLeastRecentlyUsedKeys"
        /\ maxRecentKeysSize >= 1
        /\ Cardinality(DOMAIN storageMap) > maxRecentKeysSize)
       => EvictionKeepsLastDropsFirst]_vars

\* at a maximum of 1 or more an eviction dropped a key and the last touched key
\* still has its cached value
C12_EvictedFromOne ==
    /\ cacheOp = "removeLeastRecentlyUsedKeys"
    /\ maxRecentKeysSize >= 1
    /\ opKeys # <<>>
    /\ recentKeys # <<>>
    /\ Last(recentKeys) \in DOMAIN storageMap

\* C15: merge(data) takes the throwing path for every data that is a primitive,
\* null, undefined or an array, and a merge that threw left the value map, the
\* known keys and the recently used keys as they were.
C15_InvalidMergeThrows ==
    [][/\ \A data \in InvalidData : MergeRejects(data)
       /\ cacheOp' = "merge threw" =>
            UNCHANGED <<storageMap, storageKeys, recentKeys>>]_vars

\* C15 witness: a merge threw on a cache that holds values and recent keys.
C15_Witness ==
    /\ cacheOp = "merge threw"
    /\ DOMAIN storageMap # {}
    /\ recentKeys # <<>>

\* merge(base, patch) of the deep-merge contract: a patch that is not an object
\* is the result; two objects merge key by key
MergeContract(base, patch) ==
    IF patch.t = "obj" /\ base.t = "obj" THEN KeyUnion(base, patch) ELSE patch

\* what merge(data) leaves behind, data having the keys ks and the values
MergePost(ks, values) ==
    /\ SeqToSet(ks) \subseteq getAllKeys'
    /\ \A k \in SeqToSet(ks) :
         /\ k \in DOMAIN storageMap'
         /\ storageMap'[k] = MergeContract(MapValue(storageMap, k), values[k])
    /\ recentKeys' = SelectSeq(recentKeys, LAMBDA x : x \notin SeqToSet(ks)) \o ks
    /\ \A k \in CacheKeys \ SeqToSet(ks) : SameEntry(k) /\ SameKnown(k)

\* C16: after merge(data) with an object, every key of data is known and holds
\* the deep merge of its previous cached value with data's value, the keys of
\* data are the most recently used keys in data's key order, and every other
\* key keeps its cached value, its known-keys membership and its relative
\* recency order.
C16_MergeResult ==
    [][cacheOp' = "merge" => MergePost(opKeys', opValues')]_vars

\* C16 witness: merge({k2: null, k1: {b: 1}}) onto k1 = {a: 1} and k3 = {a: 1}.
C16_Witness ==
    /\ cacheOp = "merge"
    /\ opKeys = <<"k2", "k1">>
    /\ recentKeys = <<"k3", "k2", "k1">>
    /\ DOMAIN storageMap = CacheKeys
    /\ storageMap["k1"] = Obj([k \in {"a", "b"} |-> Num(1)])
    /\ storageMap["k2"] = Null
    /\ storageMap["k3"] = Obj([k \in {"a"} |-> Num(1)])

\* the step is a set, merge, drop or eviction that touches the key
Touches(k) ==
    /\ cacheOp' \in {"set", "merge", "drop", "removeLeastRecentlyUsedKeys"}
    /\ k \in SeqToSet(opKeys')

\* C17: set(key, value) returns value, makes key known and stores value;
\* getValue(key) returns the stored value; and no operation other than a set,
\* merge, drop or eviction touching a key changes that key's cached value.
C17_SetThenStable ==
    [][/\ cacheOp' = "set" =>
            /\ cacheRet' = opValues'[opKeys'[1]]
            /\ opKeys'[1] \in getAllKeys'
            /\ opKeys'[1] \in DOMAIN storageMap'
            /\ storageMap'[opKeys'[1]] = opValues'[opKeys'[1]]
       /\ cacheOp' = "getValue" => cacheRet' = MapValue(storageMap', opKeys'[1])
       /\ \A k \in DOMAIN storageMap : ~Touches(k) => SameEntry(k)]_vars

\* C17 witness: getValue(k1) returned the object stored for k1 while k2 and k3
\* hold values of their own.
C17_Witness ==
    /\ cacheOp = "getValue"
    /\ opKeys = <<"k1">>
    /\ cacheRet = Obj([k \in {"a"} |-> Num(1)])
    /\ DOMAIN storageMap = CacheKeys
    /\ storageMap["k2"] = Null

\* C18: the recently used keys never hold a key twice, and after getValue(k) or
\* set(k, v) the key k is the last of them and the other keys are in the order
\* they were in.
C18_RecentKeysOrder ==
    [][/\ NoDuplicates(recentKeys')
       /\ cacheOp' \in {"getValue", "set"} =>
            /\ Last(recentKeys') = opKeys'[1]
            /\ Without(recentKeys', opKeys'[1]) = Without(recentKeys, opKeys'[1])]_vars

\* C18 witness: getValue of k1, which has no cached value, after k2 and k3.
C18_Witness ==
    /\ cacheOp = "getValue"
    /\ opKeys = <<"k1">>
    /\ "k1" \notin DOMAIN storageMap
    /\ recentKeys = <<"k2", "k3", "k1">>

\* C19: drop(key) leaves key without an entry in the value map, the known keys
\* and the recently used keys, leaves the entries, the membership and the order
\* of every other key as they were, and changes nothing when key was in none
\* of the three.
C19_DropFrame ==
    [][cacheOp' = "drop" =>
         /\ opKeys'[1] \notin DOMAIN storageMap'
         /\ opKeys'[1] \notin getAllKeys'
         /\ opKeys'[1] \notin SeqToSet(recentKeys')
         /\ \A k \in CacheKeys \ {opKeys'[1]} : SameEntry(k) /\ SameKnown(k)
         /\ recentKeys' = Without(recentKeys, opKeys'[1])
         /\ maxRecentKeysSize' = maxRecentKeysSize
         /\ (/\ opKeys'[1] \notin DOMAIN storageMap
             /\ opKeys'[1] \notin getAllKeys
             /\ opKeys'[1] \notin SeqToSet(recentKeys))
            => UNCHANGED <<storageMap, storageKeys, recentKeys>>]_vars

\* C19 witness: drop(k1) on a cache where k2 and k3 keep their values and order.
C19_Witness ==
    /\ cacheOp = "drop"
    /\ opKeys = <<"k1">>
    /\ recentKeys = <<"k3", "k2">>
    /\ DOMAIN storageMap = {"k2", "k3"}
    /\ getAllKeys = {"k2", "k3"}

\* C20 as stated: hasCacheForKey(key) is true exactly when the value map has an
\* entry for key, whatever value set(key, value) stored.
C20_HasCacheIffEntry ==
    \A key \in CacheKeys : hasCacheForKey(key) <=> key \in DOMAIN storageMap

\* C20 amended: hasCacheForKey(key) is true exactly when the value map has an
\* entry for key that is not undefined (null counts as a value): true after
\* set(key, value) for every value but undefined, false for a key that only addKey registered, although
\* getAllKeys() contains it.
C20_HasCacheIffDefinedEntry ==
    /\ \A key \in CacheKeys :
         hasCacheForKey(key) <=> MapValue(storageMap, key) # Undefined
    /\ cacheOp = "set" =>
          (hasCacheForKey(opKeys[1]) <=> opValues[opKeys[1]] # Undefined)
    /\ (cacheOp = "addKey" /\ opKeys[1] \notin DOMAIN storageMap) =>
          (~hasCacheForKey(opKeys[1]) /\ opKeys[1] \in getAllKeys)

\* C20 witness: addKey(k1) made k1 known without a cached value, next to k2
\* cached as null by merge({k2: null}).
C20_Witness ==
    /\ cacheOp = "addKey"
    /\ opKeys = <<"k1">>
    /\ "k1" \notin DOMAIN storageMap
    /\ "k1" \in getAllKeys
    /\ "k2" \in DOMAIN storageMap /\ storageMap["k2"] = Null

(***************************************************************************)
(* OnyxCache pending tasks, and get() deduplicating storage reads by them  *)
(***************************************************************************)

\* States of a captured promise:
\*   "unused"   not captured yet
\*   "pending"  the promise given to captureTask has not settled
\*   "settled"  it settled; the .finally reaction has not run yet
\*   "cleaned"  the .finally reaction ran; the promise captureTask returned settled

\* hasPendingTask(taskName)
hasPendingTask(name) == pendingPromises[name] # NoTask

\* getTaskPromise(taskName)
getTaskPromise(name) == pendingPromises[name]

\* captureTask that returns the promise without recording it
captureTaskForgets(name, c) == pendingPromises

\* captureTask(taskName, promise): this.pendingPromises[taskName] = promise.finally(...)
captureTask(name, c) == [pendingPromises EXCEPT ![name] = c]

\* the promises captured so far are numbered in capture order
NextTask == Cardinality({c \in Tasks : tasks[c].state # "unused"}) + 1

\* a user of the cache captures a promise of its own under a name
CaptureTask(name) ==
    /\ NextTask <= MaxTasks
    /\ pendingPromises' = captureTask(name, NextTask)
    /\ tasks' = [tasks EXCEPT ![NextTask] =
                    [name |-> name, key |-> "", state |-> "pending", outcome |-> "none",
                     value |-> NotRun, awaiters |-> 0]]
    /\ UNCHANGED <<calls, reads>>
    /\ UNCHANGED cacheVars
    /\ UNCHANGED notTaskVars

\* a caller finds the task pending and awaits getTaskPromise(name)
AwaitTask(name) ==
    /\ hasPendingTask(name)
    /\ tasks[getTaskPromise(name)].awaiters < MaxCallers
    /\ tasks' = [tasks EXCEPT ![getTaskPromise(name)].awaiters = @ + 1]
    /\ UNCHANGED <<pendingPromises, calls, reads>>
    /\ UNCHANGED cacheVars
    /\ UNCHANGED notTaskVars

\* a promise captured by a user of the cache resolves or rejects
TaskSettles(c, o) ==
    /\ tasks[c].state = "pending"
    /\ tasks[c].key = ""
    /\ tasks' = [tasks EXCEPT ![c].state = "settled", ![c].outcome = o,
                              ![c].value = IF o = "resolved" THEN Num(1) ELSE Rejected]
    /\ UNCHANGED <<pendingPromises, calls, reads>>
    /\ UNCHANGED cacheVars
    /\ UNCHANGED notTaskVars

\* the callers whose get() has not delivered its result yet
OpenCalls == {j \in Callers : calls[j].via \in {"read", "shared"} /\ calls[j].result = NotRun}

\* the callers are numbered in the order of their get() calls
NextCaller == Cardinality({j \in Callers : calls[j].via # "none"}) + 1

\* get(key) of caller i: the cached value if there is one; else the pending
\* task "get:<key>" if there is one; else a Storage.getItem(key) read, captured
\* under that name
Get(i, key) ==
    /\ i = NextCaller
    /\ IF hasCacheForKey(key)
       THEN /\ calls' = [calls EXCEPT ![i] =
                           [key |-> key, via |-> "cache", task |-> NoTask,
                            result |-> MapValue(storageMap, key), during |-> OpenCalls]]
            /\ GetValueEffect(key)
            /\ UNCHANGED <<pendingPromises, tasks, reads>>
       ELSE IF hasPendingTask(GetTaskName(key))
       THEN /\ calls' = [calls EXCEPT ![i] =
                           [key |-> key, via |-> "shared",
                            task |-> getTaskPromise(GetTaskName(key)),
                            result |-> NotRun, during |-> OpenCalls]]
            /\ tasks' = [tasks EXCEPT ![getTaskPromise(GetTaskName(key))].awaiters = @ + 1]
            /\ UNCHANGED <<pendingPromises, reads>>
            /\ UNCHANGED cacheVars
       ELSE /\ NextTask <= MaxTasks
            /\ reads' = [reads EXCEPT ![key] = @ + 1]
            /\ pendingPromises' = captureTask(GetTaskName(key), NextTask)
            /\ tasks' = [tasks EXCEPT ![NextTask] =
                            [name |-> GetTaskName(key), key |-> key, state |-> "pending",
                             outcome |-> "none", value |-> NotRun, awaiters |-> 1]]
            /\ calls' = [calls EXCEPT ![i] =
                           [key |-> key, via |-> "read", task |-> NextTask,
                            result |-> NotRun, during |-> OpenCalls]]
            /\ UNCHANGED cacheVars
    /\ UNCHANGED notTaskVars

\* what Storage.getItem resolves with
ReadValues == {Null, Obj([k \in {"a"} |-> Num(1)])}

\* the read of get() resolves: the value is put in the cache and passed on
ReadResolves(c, val) ==
    /\ tasks[c].state = "pending"
    /\ tasks[c].key # ""
    /\ SetEffect(tasks[c].key, val)
    /\ tasks' = [tasks EXCEPT ![c].state = "settled", ![c].outcome = "resolved",
                              ![c].value = val]
    /\ UNCHANGED <<pendingPromises, calls, reads>>
    /\ UNCHANGED notTaskVars

\* the read of get() rejects: the error is logged, the promise given to
\* captureTask resolves with undefined
ReadRejects(c) ==
    /\ tasks[c].state = "pending"
    /\ tasks[c].key # ""
    /\ tasks' = [tasks EXCEPT ![c].state = "settled", ![c].outcome = "resolved",
                              ![c].value = Undefined]
    /\ UNCHANGED <<pendingPromises, calls, reads>>
    /\ UNCHANGED cacheVars
    /\ UNCHANGED notTaskVars

\* the cleanup as a .then reaction: it does not run for a rejected promise
CleanupOnSuccess(c) ==
    /\ tasks[c].state = "settled"
    /\ tasks[c].outcome = "resolved"
    /\ pendingPromises' = [pendingPromises EXCEPT ![tasks[c].name] = NoTask]
    /\ tasks' = [tasks EXCEPT ![c].state = "cleaned"]
    /\ calls' = [j \in Callers |->
                   IF calls[j].task = c THEN [calls[j] EXCEPT !.result = tasks[c].value]
                   ELSE calls[j]]
    /\ UNCHANGED reads
    /\ UNCHANGED cacheVars
    /\ UNCHANGED notTaskVars

\* the .finally reaction of captureTask: delete this.pendingPromises[taskName];
\* then the promise captureTask returned settles as the captured one did
Cleanup(c) ==
    /\ tasks[c].state = "settled"
    /\ pendingPromises' = [pendingPromises EXCEPT ![tasks[c].name] = NoTask]
    /\ tasks' = [tasks EXCEPT ![c].state = "cleaned"]
    /\ calls' = [j \in Callers |->
                   IF calls[j].task = c THEN [calls[j] EXCEPT !.result = tasks[c].value]
                   ELSE calls[j]]
    /\ UNCHANGED reads
    /\ UNCHANGED cacheVars
    /\ UNCHANGED notTaskVars

\* drop(key) while tasks are pending
TaskDrop(key) ==
    /\ key \in DOMAIN storageMap
    /\ DropEffect(key)
    /\ UNCHANGED taskVars
    /\ UNCHANGED notTaskVars

\* users of the cache capturing promises of their own and awaiting them
TaskNext ==
    \/ \E name \in ClientTaskNames : CaptureTask(name)
    \/ \E name \in ClientTaskNames : AwaitTask(name)
    \/ \E c \in Tasks, o \in {"resolved", "rejected"} : TaskSettles(c, o)
    \/ \E c \in Tasks : Cleanup(c)

TaskSpecInit == QueueInit /\ MergeIdle /\ CacheInit /\ TaskInit /\ OnyxInit

\* The .finally reaction of a settled promise is a queued job: it runs.
TaskSpec ==
    /\ TaskSpecInit
    /\ [][TaskNext]_vars
    /\ \A c \in Tasks : WF_vars(Cleanup(c))

\* callers of get() whose reads settle while the cache drops keys
GetNext ==
    \/ \E i \in Callers, key \in TaskKeys : Get(i, key)
    \/ \E c \in Tasks, val \in ReadValues : ReadResolves(c, val)
    \/ \E c \in Tasks : ReadRejects(c)
    \/ \E c \in Tasks : Cleanup(c)
    \/ \E key \in TaskKeys : TaskDrop(key)

GetSpecInit == QueueInit /\ MergeIdle /\ CacheInit /\ TaskInit /\ OnyxInit

GetSpec == GetSpecInit /\ [][GetNext]_vars

\* C13: once the promise given to captureTask(name, p) has settled, by resolving
\* or by rejecting, its cleanup runs, and when it has run hasPendingTask(name) is
\* false and getTaskPromise(name) is undefined, however many callers await it.
C13_SettledTaskIsCleared ==
    /\ [][\A c \in Tasks :
            (tasks[c].state = "settled" /\ tasks'[c].state = "cleaned") =>
               (~hasPendingTask(tasks[c].name) /\ getTaskPromise(tasks[c].name) = NoTask)']_vars
    /\ \A c \in Tasks : (tasks[c].state = "settled") ~> (tasks[c].state = "cleaned")

\* C13 witness: a promise that rejected while two callers awaited it has been
\* cleaned up and its name has no record.
C13_Witness ==
    \E c \in Tasks :
        /\ tasks[c].state = "cleaned"
        /\ tasks[c].outcome = "rejected"
        /\ tasks[c].awaiters >= 2
        /\ ~hasPendingTask(tasks[c].name)

\* C14: when get(K) of one caller started a storage read (K had no cached value
\* and no pending task) and another caller's get(K) is issued before the first
\* has delivered, the second starts no read: it shares the first one's task or
\* takes the value that read cached, exactly one read of K is made for the two,
\* and both receive the result of that read.
C14_ConcurrentGetsShareOneRead ==
    \A i, j \in Callers :
        (/\ i \in calls[j].during
         /\ calls[i].key = calls[j].key
         /\ calls[i].via = "read")
        => /\ calls[j].via \in {"shared", "cache"}
           /\ calls[j].via = "shared" => calls[j].task = calls[i].task
           /\ calls[j].via = "cache" => calls[j].result = tasks[calls[i].task].value
           /\ (calls[i].result # NotRun /\ calls[j].result # NotRun) =>
                 /\ calls[j].result = calls[i].result
                 /\ calls[i].result = tasks[calls[i].task].value

\* C14 witness: two callers of get(k1), the second issued while the first one's
\* read was pending, both hold the object that the single read of k1 gave.
C14_Witness ==
    \E i, j \in Callers :
        /\ i \in calls[j].during
        /\ calls[i].key = "k1" /\ calls[j].key = "k1"
        /\ calls[i].via = "read" /\ calls[j].via = "shared"
        /\ calls[i].result = Obj([k \in {"a"} |-> Num(1)])
        /\ calls[j].result = Obj([k \in {"a"} |-> Num(1)])
        /\ reads["k1"] = 1

(***************************************************************************)
(* Onyx: subscriptions and writes.  connect/disconnect keep the            *)
(* subscriptions; set, merge and mergeCollection go through the write      *)
(* sequencer one at a time: storage write, then cache update and           *)
(* notification of the subscribers, then the promise of the write resolves.*)
(* Storage writes succeed.                                                 *)
(***************************************************************************)
\* ONYX_KEYS of the unit tests: one plain key, one collection and its members
TEST_KEY == "test"
TEST_COLLECTION == "test_"
MemberKeys == {"test_1", "test_2"}
\* a key that is no member of the collection
NOT_MY_TEST == "notMyTest"
\* the second argument of a callback that gets the whole collection: undefined
NoKey == "undefined"

isCollectionKey(key) == key = TEST_COLLECTION
\* key.startsWith(collectionKey)
startsWithCollectionKey(key) == key \in MemberKeys
\* a subscription to subKey is interested in key
isKeyMatch(subKey, key) ==
    IF isCollectionKey(subKey) THEN startsWithCollectionKey(key) ELSE subKey = key

\* [mutant of hasValueChanged] every write counts as a change
hasValueChangedAlways(key, value) == TRUE

\* OnyxCache.hasValueChanged(key, value): !deepEqual(this.storageMap[key], value)
hasValueChanged(key, value) == MapValue(storageMap, key) # value

\* the values subscribers can ask for at connect time and writers write
ObjA == Obj([k \in {"a"} |-> Num(1)])
ObjB == Obj([k \in {"b"} |-> Num(2)])
\* the subscriptions connect() is called with: key, initWithStoredValues,
\* waitForCollectionCallback
SubConfigs ==
    {[key |-> TEST_KEY, init |-> TRUE, wait |-> FALSE],
     [key |-> TEST_KEY, init |-> FALSE, wait |-> FALSE],
     [key |-> "test_1", init |-> TRUE, wait |-> FALSE],
     [key |-> TEST_COLLECTION, init |-> TRUE, wait |-> TRUE],
     [key |-> TEST_COLLECTION, init |-> FALSE, wait |-> TRUE],
     [key |-> TEST_COLLECTION, init |-> FALSE, wait |-> FALSE]}

\* one write request: method, keys in Object.keys order, value by key
Request(method, ks, values) == [method |-> method, keys |-> ks, values |-> values]
OneValue(key, value) == [k \in {key} |-> value]
SetRequest(key, value) == Request("set", <<key>>, OneValue(key, value))
MergeRequest(key, value) == Request("merge", <<key>>, OneValue(key, value))
MergeCollectionRequest(ks, values) == Request("mergecollection", ks, values)

\* no callback called
NoCalls == [id \in SubIds |-> <<>>]
\* the step named name called the callbacks as in cs
OnyxStep(name, cs) ==
    /\ invoked' = cs
    /\ onyxOp' = name

\* the members of the collection that have a cached value, with their values
getCachedCollection(map) == Obj([k \in DOMAIN map \cap MemberKeys |-> map[k]])
\* what connect() sends first: the cached value, null when there is none
InitialValue(key) ==
    IF isCollectionKey(key)
    THEN IF DOMAIN storageMap \cap MemberKeys = {} THEN Null
         ELSE getCachedCollection(storageMap)
    ELSE IF key \in DOMAIN storageMap THEN storageMap[key] ELSE Null
InitialKey(key) == IF isCollectionKey(key) THEN NoKey ELSE key

NextSub == IF subs["s1"].state = "unused" THEN "s1" ELSE "s2"

\* connect(mapping): the subscription is active at once; with
\* initWithStoredValues its first delivery is scheduled, not made
Connect(id, cfg) ==
    /\ id = NextSub
    /\ subs[id].state = "unused"
    /\ subs' = [subs EXCEPT ![id] = [state |-> "active", key |-> cfg.key,
                                     init |-> cfg.init, wait |-> cfg.wait]]
    /\ scheduled' = IF cfg.init
                    THEN Append(scheduled, [sub |-> id, value |-> InitialValue(cfg.key),
                                            key |-> InitialKey(cfg.key)])
                    ELSE scheduled
    /\ OnyxStep("connect", NoCalls)
    /\ UNCHANGED <<ops, writeQueue, busy, store, updateOps, updatePromise, expected>>
    /\ UNCHANGED <<cacheVars, notOnyxVars>>

\* disconnect(id)
Disconnect(id) ==
    /\ subs[id].state = "active"
    /\ subs' = [subs EXCEPT ![id].state = "disconnected"]
    /\ OnyxStep("disconnect", NoCalls)
    /\ UNCHANGED <<scheduled, ops, writeQueue, busy, store, updateOps, updatePromise, expected>>
    /\ UNCHANGED <<cacheVars, notOnyxVars>>

\* [mutant of DeliveryCalls] a scheduled delivery is made whatever became of
\* the subscription
DeliveryCallsUnchecked(d) == [NoCalls EXCEPT ![d.sub] = <<[value |-> d.value, key |-> d.key]>>]

\* the calls a scheduled delivery makes when it runs: the subscription is
\* checked again right before the call
DeliveryCalls(d) ==
    IF subs[d.sub].state = "active"
    THEN [NoCalls EXCEPT ![d.sub] = <<[value |-> d.value, key |-> d.key]>>]
    ELSE NoCalls

\* the oldest scheduled delivery runs
Deliver ==
    /\ scheduled # <<>>
    /\ scheduled' = Tail(scheduled)
    /\ OnyxStep("deliver", DeliveryCalls(Head(scheduled)))
    /\ UNCHANGED <<subs, ops, writeQueue, busy, store, updateOps, updatePromise, expected>>
    /\ UNCHANGED <<cacheVars, notOnyxVars>>

\* merge of a patch into a value: a patch that is no plain object, or a first
\* value, replaces; an object is merged by fastMerge
applyMerge(existing, patch) ==
    IF ~isObject(patch) \/ IsArray(patch) \/ ~isObject(existing) \/ IsArray(existing)
    THEN patch
    ELSE fastMerge(existing, patch)
\* the value the write req leaves under key when the value was existing
WrittenBy(req, key, existing) ==
    IF req.method \in {"set", "clear"} THEN req.values[key]
    ELSE applyMerge(existing, req.values[key])
\* the value the write req is to leave under key when the value was existing,
\* by the merge contract
ContractWrite(req, key, existing) ==
    IF req.method \in {"set", "clear"} THEN req.values[key]
    ELSE MergeContract(existing, req.values[key])
\* the values by key after the writes reqs, applied in order to the values exp
RECURSIVE ExpectedAfter(_, _)
ExpectedAfter(exp, reqs) ==
    IF reqs = <<>> THEN exp
    ELSE LET req == Head(reqs)
             ks == SeqToSet(req.keys)
         IN  ExpectedAfter([k \in DOMAIN exp \cup ks |->
                              IF k \in ks
                              THEN ContractWrite(req, k,
                                                 IF k \in DOMAIN exp THEN exp[k] ELSE Null)
                              ELSE exp[k]],
                           Tail(reqs))

NextOp == Cardinality({i \in OpIds : ops[i].stage # "unused"}) + 1

\* the writes reqs enter the write sequencer in order; it starts the first
\* one when it is idle
Submitted(reqs) ==
    LET n == Len(reqs)
        ids == [j \in 1..n |-> NextOp + j - 1]
        r == Process(writeQueue \o ids, busy)
    IN  /\ NextOp + n - 1 <= MaxOps
        /\ ops' = [i \in OpIds |->
                     IF i \in SeqToSet(ids)
                     THEN [method |-> reqs[i - NextOp + 1].method,
                           keys |-> reqs[i - NextOp + 1].keys,
                           values |-> reqs[i - NextOp + 1].values,
                           stage |-> IF r.started = i THEN "writing" ELSE "queued",
                           promise |-> "pending"]
                     ELSE ops[i]]
        /\ writeQueue' = r.queue
        /\ busy' = r.isProcessing
        /\ expected' = ExpectedAfter(expected, reqs)

\* the value in storage, null when there is none
StoreValue(key) == IF key \in DOMAIN store THEN store[key] ELSE Null
\* the value write i leaves under key
Written(i, key) == WrittenBy(ops[i], key, StoreValue(key))

\* set(key, value), merge(key, value), mergeCollection(collectionKey, collection)
\* with every key of the collection a member: the write is submitted
OnyxWrite(req) ==
    /\ \A n \in 1..Len(req.keys) :
          req.method = "mergecollection" => startsWithCollectionKey(req.keys[n])
    /\ Submitted(<<req>>)
    /\ OnyxStep(req.method, NoCalls)
    /\ UNCHANGED <<subs, scheduled, store, updateOps, updatePromise>>
    /\ UNCHANGED <<cacheVars, notOnyxVars>>

\* [mutant of MergeCollectionThrows] the members of the collection are stored
\* before the foreign key is found
MergeCollectionStoresThenThrows(req) ==
    /\ req.method = "mergecollection"
    /\ \E n \in 1..Len(req.keys) : ~startsWithCollectionKey(req.keys[n])
    /\ store' = [k \in DOMAIN store \cup (SeqToSet(req.keys) \cap MemberKeys) |->
                   IF k \in SeqToSet(req.keys) THEN WrittenBy(req, k, StoreValue(k))
                   ELSE store[k]]
    /\ OnyxStep("mergecollection threw", NoCalls)
    /\ UNCHANGED <<subs, scheduled, ops, writeQueue, busy, updateOps, updatePromise, expected>>
    /\ UNCHANGED <<cacheVars, notOnyxVars>>

\* mergeCollection with a key that does not start with the collection key: it
\* throws before it writes anything
MergeCollectionThrows(req) ==
    /\ req.method = "mergecollection"
    /\ \E n \in 1..Len(req.keys) : ~startsWithCollectionKey(req.keys[n])
    /\ OnyxStep("mergecollection threw", NoCalls)
    /\ UNCHANGED <<subs, scheduled, ops, writeQueue, busy, store, updateOps, updatePromise, expected>>
    /\ UNCHANGED <<cacheVars, notOnyxVars>>

\* the storage write of the write the sequencer is executing completes
StorageWrite(i) ==
    /\ ops[i].stage = "writing"
    /\ store' = [k \in DOMAIN store \cup SeqToSet(ops[i].keys) |->
                   IF k \in SeqToSet(ops[i].keys) THEN Written(i, k) ELSE store[k]]
    /\ ops' = [ops EXCEPT ![i].stage = "written"]
    /\ OnyxStep("write", NoCalls)
    /\ UNCHANGED <<subs, scheduled, writeQueue, busy, updateOps, updatePromise, expected>>
    /\ UNCHANGED <<cacheVars, notOnyxVars>>

\* [mutant of KeyChangedCalls] every subscriber is skipped when the value did
\* not change
KeyChangedCallsSkipsAll(s, key, value, changed, cached) ==
    IF s.state # "active" \/ ~isKeyMatch(s.key, key) THEN <<>>
    ELSE IF ~changed THEN <<>>
    ELSE IF isCollectionKey(s.key) /\ s.wait
         THEN <<[value |-> getCachedCollection(cached), key |-> NoKey]>>
    ELSE <<[value |-> value, key |-> key]>>

\* notifyKeyChanged(key, value) for subscription s: a subscriber with
\* initWithStoredValues is skipped when the value did not change; one that
\* waits for the collection gets the whole collection, the others the value
KeyChangedCalls(s, key, value, changed, cached) ==
    IF s.state # "active" \/ ~isKeyMatch(s.key, key) THEN <<>>
    ELSE IF s.init /\ ~changed THEN <<>>
    ELSE IF isCollectionKey(s.key) /\ s.wait
         THEN <<[value |-> getCachedCollection(cached), key |-> NoKey]>>
    ELSE <<[value |-> value, key |-> key]>>

\* [mutant of KeysChangedCalls] a subscriber that waits for the collection is
\* called once per merged key like the others
KeysChangedCallsPerMember(s, ks, cached) ==
    IF s.state # "active" THEN <<>>
    ELSE IF isCollectionKey(s.key)
         THEN [n \in 1..Len(ks) |-> [value |-> cached[ks[n]], key |-> ks[n]]]
    ELSE IF s.key \in SeqToSet(ks) THEN <<[value |-> cached[s.key], key |-> s.key]>>
    ELSE <<>>

\* the notification of a mergeCollection of the keys ks for subscription s: one
\* call with the whole collection, or one call per merged key in the order of
\* ks, or one call for the subscribed member
KeysChangedCalls(s, ks, cached) ==
    IF s.state # "active" THEN <<>>
    ELSE IF isCollectionKey(s.key)
         THEN IF s.wait THEN <<[value |-> getCachedCollection(cached), key |-> NoKey]>>
              ELSE [n \in 1..Len(ks) |-> [value |-> cached[ks[n]], key |-> ks[n]]]
    ELSE IF s.key \in SeqToSet(ks) THEN <<[value |-> cached[s.key], key |-> s.key]>>
    ELSE <<>>

\* clear() sets every key in the cache to its reset value, by cache.set
ClearEffect(ks, values) ==
    /\ storageMap' = [k \in DOMAIN storageMap \cup SeqToSet(ks) |->
                        IF k \in SeqToSet(ks) THEN values[k] ELSE storageMap[k]]
    /\ storageKeys' = getAllKeys \cup SeqToSet(ks)
    /\ recentKeys' = AccessAll(recentKeys, ks)
    /\ UNCHANGED maxRecentKeysSize
    /\ Called("set", ks, values, Undefined)

\* the notification of a clear() of the keys ks for subscription s: a collection
\* subscriber is notified of the members, a key subscriber of its key
ClearedCalls(s, ks, values, cached) ==
    IF isCollectionKey(s.key)
    THEN KeysChangedCalls(s, SelectSeq(ks, startsWithCollectionKey), cached)
    ELSE IF s.key \in SeqToSet(ks)
         THEN KeyChangedCalls(s, s.key, values[s.key], hasValueChanged(s.key, values[s.key]),
                              cached)
    ELSE <<>>

\* after its storage write, write i updates the cache and notifies the
\* subscribers
Broadcast(i) ==
    /\ ops[i].stage = "written"
    /\ IF ops[i].method = "mergecollection"
       THEN /\ MergeEffect(ops[i].keys, ops[i].values)
            /\ OnyxStep("broadcast",
                        [id \in SubIds |-> KeysChangedCalls(subs[id], ops[i].keys, storageMap')])
       ELSE IF ops[i].method = "clear"
       THEN /\ ClearEffect(ops[i].keys, ops[i].values)
            /\ OnyxStep("broadcast",
                        [id \in SubIds |->
                           ClearedCalls(subs[id], ops[i].keys, ops[i].values, storageMap')])
       ELSE LET key == ops[i].keys[1]
                changed == hasValueChanged(key, StoreValue(key))
            IN  /\ SetEffect(key, StoreValue(key))
                /\ OnyxStep("broadcast",
                            [id \in SubIds |->
                               KeyChangedCalls(subs[id], key, StoreValue(key), changed,
                                               storageMap')])
    /\ ops' = [ops EXCEPT ![i].stage = "notified"]
    /\ UNCHANGED <<subs, scheduled, writeQueue, busy, store, updateOps, updatePromise, expected>>
    /\ UNCHANGED notOnyxVars

\* [mutant of CanResolve] the promise resolves once the storage write is made
CanResolveWhenWritten(i) == ops[i].stage \in {"written", "notified"}

\* the promise of write i can resolve: the write has notified the subscribers
CanResolve(i) == ops[i].stage = "notified"

\* the promise of write i resolves and the sequencer takes the next write
Resolve(i) ==
    /\ CanResolve(i)
    /\ ops[i].promise = "pending"
    /\ LET r == Process(writeQueue, FALSE)
       IN  /\ ops' = [j \in OpIds |->
                        IF j = i THEN DoneOp
                        ELSE IF j = r.started THEN [ops[j] EXCEPT !.stage = "writing"]
                        ELSE ops[j]]
           /\ writeQueue' = r.queue
           /\ busy' = r.isProcessing
    /\ OnyxStep("resolve", NoCalls)
    /\ UNCHANGED <<subs, scheduled, store, updateOps, updatePromise, expected>>
    /\ UNCHANGED <<cacheVars, notOnyxVars>>

\* the methods update() dispatches on
ONYX_METHODS == {"set", "merge", "mergecollection"}
\* one entry of the list given to update(): onyxMethod, the type of its key,
\* and the write it asks for
UpdateEntry(onyxMethod, keyType, req) ==
    [onyxMethod |-> onyxMethod, keyType |-> keyType, req |-> req]
ValidEntry(e) == e.onyxMethod \in ONYX_METHODS /\ e.keyType = "string"
\* the writes of a list of entries, in order
Requests(batch) == [n \in 1..Len(batch) |-> batch[n].req]

\* update(data) with every entry valid: all its writes are submitted in order
Update(batch) ==
    /\ updatePromise = "none"
    /\ \A n \in 1..Len(batch) : ValidEntry(batch[n])
    /\ Submitted(Requests(batch))
    /\ updateOps' = {NextOp + n - 1 : n \in 1..Len(batch)}
    /\ updatePromise' = "pending"
    /\ OnyxStep("update", NoCalls)
    /\ UNCHANGED <<subs, scheduled, store>>
    /\ UNCHANGED <<cacheVars, notOnyxVars>>

\* [mutant of UpdateThrows] the entries are validated one by one as they are
\* executed: a valid first entry is submitted before the throw
UpdateThrowsWhileExecuting(batch) ==
    /\ \E n \in 1..Len(batch) : ~ValidEntry(batch[n])
    /\ IF ValidEntry(batch[1]) THEN Submitted(<<batch[1].req>>)
       ELSE UNCHANGED <<ops, writeQueue, busy, expected>>
    /\ OnyxStep("update threw", NoCalls)
    /\ UNCHANGED <<subs, scheduled, store, updateOps, updatePromise>>
    /\ UNCHANGED <<cacheVars, notOnyxVars>>

\* update(data) with an entry whose onyxMethod is unknown or whose key is not
\* a string: it throws before it submits anything
UpdateThrows(batch) ==
    /\ \E n \in 1..Len(batch) : ~ValidEntry(batch[n])
    /\ OnyxStep("update threw", NoCalls)
    /\ UNCHANGED <<subs, scheduled, ops, writeQueue, busy, store, updateOps, updatePromise, expected>>
    /\ UNCHANGED <<cacheVars, notOnyxVars>>

\* [mutant of UpdateSettled] the promise of update() resolves with the first
\* of its writes
UpdateSettledByFirst == \E i \in updateOps : ops[i].promise = "resolved"

\* every write of the update() call has resolved
UpdateSettled == \A i \in updateOps : ops[i].promise = "resolved"

\* the promise update() returned resolves
ResolveUpdate ==
    /\ updatePromise = "pending"
    /\ UpdateSettled
    /\ updatePromise' = "resolved"
    /\ OnyxStep("resolve update", NoCalls)
    /\ UNCHANGED <<subs, scheduled, ops, writeQueue, busy, store, updateOps, expected>>
    /\ UNCHANGED <<cacheVars, notOnyxVars>>

\* the writes subscribers are notified of
TwoMembers == [k \in MemberKeys |-> IF k = "test_1" THEN ObjB ELSE ObjA]
NotifyRequests ==
    {SetRequest(TEST_KEY, ObjA),
     MergeRequest("test_1", ObjA),
     MergeCollectionRequest(<<"test_1", "test_2">>, TwoMembers),
     MergeCollectionRequest(<<"test_2", "test_1">>, TwoMembers)}

\* Subscribers connect and disconnect while writes are made and awaited or not.
SubscriberNext ==
    \/ \E id \in SubIds, cfg \in SubConfigs : Connect(id, cfg)
    \/ \E id \in SubIds : Disconnect(id)
    \/ Deliver
    \/ \E req \in NotifyRequests : OnyxWrite(req)
    \/ \E i \in OpIds : StorageWrite(i)
    \/ \E i \in OpIds : Broadcast(i)
    \/ \E i \in OpIds : Resolve(i)

OnyxSpecInit == QueueInit /\ MergeIdle /\ CacheInit /\ TaskInit /\ OnyxInit

SubscriberSpec == OnyxSpecInit /\ [][SubscriberNext]_vars

\* the writes to one key, a mergeCollection with a key of another collection,
\* and the lists given to update()
Arr123 == Arr(<<1, 2, 3>>)
Arr4 == Arr(<<4>>)
WithStranger == [k \in {"test_1", NOT_MY_TEST} |-> ObjA]
WriteRequests ==
    {MergeRequest(TEST_KEY, ObjA), MergeRequest(TEST_KEY, ObjB),
     MergeRequest(TEST_KEY, Arr123), MergeRequest(TEST_KEY, Arr4),
     MergeCollectionRequest(<<"test_1", NOT_MY_TEST>>, WithStranger)}
UpdateEntries ==
    {UpdateEntry("set", "string", SetRequest(TEST_KEY, ObjA)),
     UpdateEntry("merge", "string", MergeRequest("test_1", ObjB)),
     UpdateEntry("mergecollection", "string",
                 MergeCollectionRequest(<<"test_1", "test_2">>, TwoMembers)),
     UpdateEntry("delete", "string", SetRequest(TEST_KEY, ObjA)),
     UpdateEntry("set", "boolean", SetRequest(TEST_KEY, ObjA))}
UpdateBatches == {<<e1, e2>> : e1 \in UpdateEntries, e2 \in UpdateEntries}
\* the subscribers that are called for every write to their key or collection
WriteSubConfigs == {cfg \in SubConfigs : ~cfg.init /\ (isCollectionKey(cfg.key) => cfg.wait)}

\* Writes and update() calls, with subscribers that see every write.
WriteNext ==
    \/ \E id \in SubIds, cfg \in WriteSubConfigs : Connect(id, cfg)
    \/ \E id \in SubIds : Disconnect(id)
    \/ \E req \in WriteRequests : OnyxWrite(req)
    \/ \E req \in WriteRequests : MergeCollectionThrows(req)
    \/ \E i \in OpIds : StorageWrite(i)
    \/ \E i \in OpIds : Broadcast(i)
    \/ \E i \in OpIds : Resolve(i)
    \/ \E batch \in UpdateBatches : Update(batch)
    \/ \E batch \in UpdateBatches : UpdateThrows(batch)
    \/ ResolveUpdate

WriteSpec == OnyxSpecInit /\ [][WriteNext]_vars

\* C21: once disconnect(id) has returned, no step calls the callback of
\* subscription id again: not the notification of a later write, and not a
\* delivery that was scheduled before the disconnect and runs after it.
C21_NoCallbackAfterDisconnect ==
    [][\A id \in SubIds : subs[id].state = "disconnected" => invoked'[id] = <<>>]_vars

\* the delivery scheduled for s1 has run after s1 was disconnected
C21_Witness ==
    /\ onyxOp = "deliver"
    /\ subs["s1"].state = "disconnected" /\ subs["s1"].init
    /\ subs["s2"].state = "unused"

\* the step is the notification of write i, a set or a merge of one key
NotifiesKey(i) ==
    /\ ops[i].stage = "written" /\ ops'[i].stage = "notified"
    /\ ops[i].method \in {"set", "merge"}
\* the value write i, a set or a merge, has stored is the value the cache holds
WritesCachedValue(i) == MapValue(storageMap, ops[i].keys[1]) = StoreValue(ops[i].keys[1])

\* C22: a subscriber with default settings (initWithStoredValues not false) gets
\* no callback for a set or merge whose resulting value equals the value the
\* cache already holds; the write is still completed: its promise can resolve.
C22_NoCallbackWhenUnchanged ==
    /\ [][\A i \in OpIds : NotifiesKey(i) /\ WritesCachedValue(i)
             => \A id \in SubIds : subs[id].init => invoked'[id] = <<>>]_vars
    /\ [](\A i \in OpIds : ops[i].stage = "notified" => ENABLED Resolve(i))

\* a set was notified and an active default subscriber to its key was not called
C22_Witness ==
    /\ onyxOp = "broadcast" /\ cacheOp = "set"
    /\ \E id \in SubIds :
          /\ subs[id].state = "active" /\ subs[id].init
          /\ isKeyMatch(subs[id].key, opKeys[1])
          /\ invoked[id] = <<>>

\* subscription id is active, was connected with initWithStoredValues: false and
\* is interested in key
AlwaysNotified(id, key) ==
    subs[id].state = "active" /\ ~subs[id].init /\ isKeyMatch(subs[id].key, key)

\* C23: a subscriber with initWithStoredValues: false gets no delivery when it
\* connects, none from a scheduled delivery, and exactly one callback call for
\* every set or merge to its key or to a member of its collection, also when
\* the written value equals the cached one.
C23_OneCallbackPerWrite ==
    [][/\ \A id \in SubIds :
             subs[id].state = "unused" /\ subs'[id].state = "active" /\ ~subs'[id].init
                => scheduled' = scheduled /\ invoked'[id] = <<>>
       /\ \A id \in SubIds : onyxOp' = "deliver" /\ ~subs[id].init => invoked'[id] = <<>>
       /\ \A i \in OpIds, id \in SubIds :
             NotifiesKey(i) /\ AlwaysNotified(id, ops[i].keys[1])
                => Len(invoked'[id]) = 1]_vars

\* a write of the cached value was notified: the default subscriber s1 was not
\* called, the subscriber s2 with initWithStoredValues: false was called once
C23_Witness ==
    /\ onyxOp = "broadcast" /\ cacheOp = "set"
    /\ subs["s1"].state = "active" /\ subs["s1"].init
    /\ isKeyMatch(subs["s1"].key, opKeys[1]) /\ invoked["s1"] = <<>>
    /\ AlwaysNotified("s2", opKeys[1]) /\ Len(invoked["s2"]) = 1

\* subscription id is to the collection with waitForCollectionCallback: true
WaitsForCollection(s) == isCollectionKey(s.key) /\ s.wait
\* the members of the collection with a cached value, and their values
CachedMembers(map) == [k \in DOMAIN map \cap MemberKeys |-> map[k]]
\* one call with the whole collection as it is cached in map
WholeCollectionCall(map) == <<[value |-> Obj(CachedMembers(map)), key |-> NoKey]>>
\* a subscriber that waits for the collection is called at most once per step,
\* when a member changed exactly once, and always with the whole collection
WholeCollectionOnChange ==
    \A id \in SubIds :
       subs[id].state = "active" /\ WaitsForCollection(subs[id]) /\ onyxOp' = "broadcast"
          => /\ invoked'[id] \in {<<>>, WholeCollectionCall(storageMap')}
             /\ CachedMembers(storageMap') # CachedMembers(storageMap)
                   => invoked'[id] # <<>>
\* the delivery scheduled at connect time is made in one call
InitialDeliveryInOneCall ==
    onyxOp' = "deliver" /\ subs[Head(scheduled).sub].state = "active"
       => invoked'[Head(scheduled).sub] =
             <<[value |-> Head(scheduled).value, key |-> Head(scheduled).key]>>
\* subscription id connects in this step, waiting for the collection and with
\* initWithStoredValues
ConnectsWaiting(id) ==
    /\ subs[id].state = "unused" /\ subs'[id].state = "active"
    /\ WaitsForCollection(subs'[id]) /\ subs'[id].init

\* C24 as stated: a collection subscriber with waitForCollectionCallback: true
\* gets, on connect and on every change of a member key, one single callback
\* whose payload is the mapping of all known member keys to their values.
C24_WholeCollectionInOneCall ==
    [][/\ WholeCollectionOnChange
       /\ InitialDeliveryInOneCall
       /\ \A id \in SubIds :
             ConnectsWaiting(id)
                => Last(scheduled') = [sub |-> id, value |-> Obj(CachedMembers(storageMap)),
                                       key |-> NoKey]]_vars

\* C24, amended: as stated, but the payload of the callback on connect is null
\* when no member key has a value at that time.
C24_WholeCollectionOrNull ==
    [][/\ WholeCollectionOnChange
       /\ InitialDeliveryInOneCall
       /\ \A id \in SubIds :
             ConnectsWaiting(id)
                => Last(scheduled') =
                     [sub |-> id,
                      value |-> IF DOMAIN storageMap \cap MemberKeys = {} THEN Null
                                ELSE Obj(CachedMembers(storageMap)),
                      key |-> NoKey]]_vars

\* a mergeCollection of both members was notified to s1, which waits for the
\* collection, in one call with both members
C24_Witness ==
    /\ onyxOp = "broadcast" /\ cacheOp = "merge"
    /\ subs["s1"].state = "active" /\ WaitsForCollection(subs["s1"])
    /\ invoked["s1"] = WholeCollectionCall(storageMap)
    /\ MemberKeys \subseteq DOMAIN storageMap

\* subscription s is to the collection, without waitForCollectionCallback
PerMember(s) == isCollectionKey(s.key) /\ ~s.wait
\* the step is the notification of write i, a mergeCollection
NotifiesCollection(i) ==
    /\ ops[i].stage = "written" /\ ops'[i].stage = "notified"
    /\ ops[i].method = "mergecollection"
\* one call per key of ks, in the order of ks, with the merge of the key's
\* cached value and its value in the collection, and the key
MemberCalls(ks, values) ==
    [n \in 1..Len(ks) |->
       [value |-> MergeContract(MapValue(storageMap, ks[n]), values[ks[n]]), key |-> ks[n]]]

\* C25: for a mergeCollection of N member keys, a collection subscriber without
\* waitForCollectionCallback gets exactly N callback calls, one per member key
\* in the key order of the collection given, each with the member's whole merged
\* value (the fields it had are kept) and the member key as second argument.
C25_OneCallPerMember ==
    [][\A i \in OpIds, id \in SubIds :
          NotifiesCollection(i) /\ subs[id].state = "active" /\ PerMember(subs[id])
             => invoked'[id] = MemberCalls(ops[i].keys, ops[i].values)]_vars

\* s1 was called for test_2, then for test_1, whose value kept the field it had
C25_Witness ==
    /\ onyxOp = "broadcast" /\ cacheOp = "merge"
    /\ subs["s1"].state = "active" /\ PerMember(subs["s1"])
    /\ Len(invoked["s1"]) = 2
    /\ invoked["s1"][1].key = "test_2" /\ invoked["s1"][2].key = "test_1"
    /\ invoked["s1"][2].value = Obj([k \in {"a", "b"} |-> IF k = "a" THEN Num(1) ELSE Num(2)])

\* subscription id is active and is due a call for the set or merge i of key:
\* it is interested in key, and the value changed or it is always notified
DueForKey(id, i) ==
    /\ subs[id].state = "active" /\ isKeyMatch(subs[id].key, ops[i].keys[1])
    /\ ~WritesCachedValue(i) \/ ~subs[id].init
\* subscription id is active and interested in a key of the mergeCollection i
DueForCollection(id, i) ==
    /\ subs[id].state = "active"
    /\ \E k \in SeqToSet(ops[i].keys) : isKeyMatch(subs[id].key, k)
\* the calls cs carry values written by now: the whole collection, or the
\* stored value of the key of the call
CarryNewValues(cs) ==
    /\ cs # <<>>
    /\ \A n \in 1..Len(cs) :
          IF cs[n].key = NoKey THEN cs[n].value = Obj(CachedMembers(store))
          ELSE cs[n].value = StoreValue(cs[n].key)

\* C29: for every set, merge and mergeCollection, the callbacks of all active
\* subscribers interested in a written key are called with the new value in
\* the notification step of the write, and the promise the write returned
\* resolves only after that step.
C29_NotifiedBeforeResolved ==
    [][\A i \in OpIds :
          /\ ops[i].promise = "pending" /\ ops'[i].promise = "resolved"
                => ops[i].stage = "notified"
          /\ \A id \in SubIds :
                \/ NotifiesKey(i) /\ DueForKey(id, i)
                \/ NotifiesCollection(i) /\ DueForCollection(id, i)
                => CarryNewValues(invoked'[id])]_vars

\* both subscribers were called for a write whose promise is still pending
C29_Witness ==
    /\ onyxOp = "broadcast"
    /\ \A id \in SubIds : subs[id].state = "active" /\ invoked[id] # <<>>
    /\ \E i \in OpIds : ops[i].stage = "notified" /\ ops[i].promise = "pending"

\* C26: mergeCollection(collectionKey, collection) with a key that does not
\* start with collectionKey throws and writes nothing: no key of the collection,
\* not even a valid member, reaches the cache, the storage or the write
\* sequencer, and no subscriber is called.
C26_ForeignKeyWritesNothing ==
    /\ [][onyxOp' = "mergecollection threw"
             => /\ UNCHANGED <<store, storageMap, storageKeys, ops, writeQueue, busy>>
                /\ invoked' = NoCalls]_vars
    /\ [](\A i \in OpIds :
             ops[i].method = "mergecollection"
                => \A k \in SeqToSet(ops[i].keys) : startsWithCollectionKey(k))

\* the call threw while a subscriber to the collection was active
C26_Witness ==
    /\ onyxOp = "mergecollection threw"
    /\ \E id \in SubIds : subs[id].state = "active" /\ isCollectionKey(subs[id].key)
    /\ "test_1" \notin DOMAIN store

\* the list given to update() has an entry with an unknown onyxMethod or with a
\* key that is not a string
Malformed(batch) == \E n \in 1..Len(batch) : ~ValidEntry(batch[n])

\* C27: update(data) validates the whole list before it executes any entry:
\* with one malformed entry the call throws, and no write of the list, not
\* even of a valid entry before the malformed one, is submitted, stored, cached
\* or notified.
C27_MalformedUpdateDoesNothing ==
    /\ [][onyxOp' = "update threw"
             => /\ UNCHANGED <<store, storageMap, storageKeys, ops, writeQueue, busy,
                               updateOps, updatePromise>>
                /\ invoked' = NoCalls]_vars
    /\ [](\A batch \in UpdateBatches : Malformed(batch) => ~ENABLED Update(batch))

\* the call threw: nothing is stored and no write was submitted
C27_Witness ==
    /\ onyxOp = "update threw"
    /\ \E id \in SubIds : subs[id].state = "active"
    /\ DOMAIN store = {} /\ NextOp = 1

\* C28: the promise update(data) returned resolves only after every write of
\* the list (set, merge, mergeCollection) has resolved, a write of the list
\* resolves only after its notification step, and that step calls every active
\* subscriber interested in a written key with the value written.
C28_UpdateResolvesLast ==
    [][/\ updatePromise = "pending" /\ updatePromise' = "resolved"
             => \A i \in updateOps : ops[i].promise = "resolved"
       /\ \A i \in updateOps :
             /\ ops[i].promise = "pending" /\ ops'[i].promise = "resolved"
                   => ops[i].stage = "notified"
             /\ \A id \in SubIds :
                   \/ NotifiesKey(i) /\ DueForKey(id, i)
                   \/ NotifiesCollection(i) /\ DueForCollection(id, i)
                   => CarryNewValues(invoked'[id])]_vars

\* the promise of an update() with two writes has resolved, with a subscriber
\* connected
C28_Witness ==
    /\ onyxOp = "resolve update" /\ updatePromise = "resolved"
    /\ Cardinality(updateOps) = 2
    /\ \A i \in updateOps : ops[i].promise = "resolved"
    /\ \E id \in SubIds : subs[id].state = "active"

\* every write submitted so far has resolved
AllResolved == \A i \in OpIds : ops[i].stage \in {"unused", "done"}
\* the step is the notification of the merge i, and no other write is pending
NotifiesLastMerge(i) ==
    /\ NotifiesKey(i) /\ ops[i].method = "merge"
    /\ \A j \in OpIds \ {i} : ops[j].stage \in {"unused", "done"}

\* C30: merges to one key that are issued back to back, without awaiting the
\* first, are applied in submission order: when they have resolved, storage and
\* cache hold what the merge contract gives for the submitted writes one after
\* the other (for {a: 1} then {b: 2} on an empty key {a: 1, b: 2}, for two
\* arrays the second array), and the last value a subscriber to the key was
\* called with is that value.
C30_MergesInSubmissionOrder ==
    /\ [](AllResolved
            => \A k \in DOMAIN expected :
                  StoreValue(k) = expected[k] /\ MapValue(storageMap, k) = expected[k])
    /\ [][\A i \in OpIds, id \in SubIds :
             /\ NotifiesLastMerge(i)
             /\ subs[id].state = "active" /\ subs[id].key = ops[i].keys[1]
             => /\ invoked'[id] # <<>>
                /\ Last(invoked'[id]).value = expected[ops[i].keys[1]]]_vars

\* merge(test, {a: 1}) was submitted and then merge(test, {b: 2}): the subscriber
\* s1 was called last with {a: 1, b: 2}
C30_Witness ==
    /\ onyxOp = "broadcast"
    /\ ops[1] = DoneOp /\ ops[2].stage = "notified"
    /\ ops[2].method = "merge" /\ ops[2].values = OneValue(TEST_KEY, ObjB)
    /\ StoreValue(TEST_KEY) = Obj([k \in {"a", "b"} |-> IF k = "a" THEN Num(1) ELSE Num(2)])
    /\ subs["s1"].state = "active"
    /\ invoked["s1"] = <<[value |-> StoreValue(TEST_KEY), key |-> TEST_KEY]>>

(***************************************************************************)
(* Onyx: clear().  Onyx is initialised with a default value for one key;   *)
(* clear() goes through the write sequencer like every other write and     *)
(* resets every key to its default, or to null when it has none.           *)
(***************************************************************************)
\* ONYX_KEYS.OTHER_TEST and its value in initialKeyStates
OTHER_TEST == "otherTest"
initialKeyStates == [k \in {OTHER_TEST} |-> Num(42)]
\* the value written by a merge to a key with a default
Merged == Num(7)

\* [mutant of ResetValue] clear() resets every key to null
ResetValueForgetsDefault(key) == Null

\* the value clear() leaves under key
ResetValue(key) == IF key \in DOMAIN initialKeyStates THEN initialKeyStates[key] ELSE Null

\* the keys of the behaviours with clear(), and the request clear() submits
ClearKeys == <<TEST_KEY, OTHER_TEST>>
ClearRequest == Request("clear", ClearKeys, [k \in SeqToSet(ClearKeys) |-> ResetValue(k)])
ClearRequests ==
    {ClearRequest, SetRequest(TEST_KEY, ObjA), SetRequest(OTHER_TEST, Merged),
     MergeRequest(OTHER_TEST, Merged)}
ClearSubConfigs ==
    {[key |-> TEST_KEY, init |-> FALSE, wait |-> FALSE],
     [key |-> TEST_KEY, init |-> TRUE, wait |-> FALSE],
     [key |-> OTHER_TEST, init |-> TRUE, wait |-> FALSE],
     [key |-> OTHER_TEST, init |-> FALSE, wait |-> FALSE]}

\* Onyx after init() with initialKeyStates: storage and cache hold the defaults
ClearInit ==
    /\ storageKeys = DOMAIN initialKeyStates
    /\ recentKeys = <<OTHER_TEST>>
    /\ storageMap = initialKeyStates
    /\ maxRecentKeysSize = 0
    /\ cacheOp = "init"
    /\ opKeys = <<>>
    /\ opValues = [k \in {} |-> Undefined]
    /\ cacheRet = Undefined
    /\ subs = [id \in SubIds |-> NoSub]
    /\ scheduled = <<>>
    /\ invoked = [id \in SubIds |-> <<>>]
    /\ ops = [i \in OpIds |-> NoOp]
    /\ writeQueue = <<>>
    /\ busy = FALSE
    /\ store = initialKeyStates
    /\ updateOps = {}
    /\ updatePromise = "none"
    /\ expected = initialKeyStates
    /\ onyxOp = "init"

\* Subscribers to single keys, writes and clear() calls.
ClearNext ==
    \/ \E id \in SubIds, cfg \in ClearSubConfigs : Connect(id, cfg)
    \/ \E id \in SubIds : Disconnect(id)
    \/ Deliver
    \/ \E req \in ClearRequests : OnyxWrite(req)
    \/ \E i \in OpIds : StorageWrite(i)
    \/ \E i \in OpIds : Broadcast(i)
    \/ \E i \in OpIds : Resolve(i)

ClearSpecInit == QueueInit /\ MergeIdle /\ TaskInit /\ ClearInit

ClearSpec == ClearSpecInit /\ [][ClearNext]_vars

\* the step is the notification of write i, a clear()
NotifiesClear(i) ==
    /\ ops[i].stage = "written" /\ ops'[i].stage = "notified"
    /\ ops[i].method = "clear"
\* key holds a value in the cache
HoldsValue(key) == MapValue(storageMap, key) \notin {Undefined, Null}

ClearInFlight(i) == ops[i].method = "clear" /\ ops[i].promise = "pending"

EvictionSubConfigs == {[key |-> k, init |-> FALSE, wait |-> FALSE] : k \in {"k1", "k2"}}

EvictionNext ==
    \/ \E id \in SubIds, cfg \in EvictionSubConfigs : Connect(id, cfg)
    \/ \E id \in SubIds : Disconnect(id)
    \/ \E key \in CacheKeys : GetValue(key)
    \/ \E key \in CacheKeys, value \in SetValues : Set(key, value)
    \/ RemoveLeastRecentlyUsedKeys
    \/ \E limit \in 0..MaxLimit : SetRecentKeysLimit(limit)

EvictionSpecInit == QueueInit /\ MergeIdle /\ CacheInit /\ TaskInit /\ OnyxInit

EvictionSpec == EvictionSpecInit /\ [][EvictionNext]_vars

\* the keys with an active subscription
SubscribedKeys == {subs[id].key : id \in {x \in SubIds : subs[x].state = "active"}}

\* C33: removeLeastRecentlyUsedKeys() leaves the cached value of every key
\* with an active subscription in place.
C33_SubscribedKeysStayCached ==
    [][cacheOp' = "removeLeastRecentlyUsedKeys"
          => \A k \in SubscribedKeys :
                MapValue(storageMap, k) # Undefined
                   => k \in DOMAIN storageMap' /\ storageMap'[k] = storageMap[k]]_vars

(***************************************************************************)
(* The SQLite storage provider: values are kept as JSON text in the column *)
(* valueJSON, written by setItem and merged by multiMerge.                 *)
(***************************************************************************)
\* what a value is as JSON: a property whose value is undefined is left out
RECURSIVE JSONValue(_)
JSONValue(value) ==
    IF value.t = "obj"
    THEN Obj([k \in {x \in Keys(value) : value.v[x] # Undefined} |-> JSONValue(value.v[k])])
    ELSE value

\* JSON.stringify(value): the JSON text of the value, undefined for undefined
JSONStringify(value) ==
    IF value = Undefined THEN Undefined ELSE [t |-> "json", v |-> JSONValue(value)]
\* JSON.parse(text)
JSONParse(text) == text.v

\* SQLite's JSON_PATCH on JSON values, the RFC 7396 MergePatch algorithm: an
\* object patch is applied member by member, a null member removes the member
\* from the target, any other patch replaces the target
RECURSIVE MergePatch(_, _)
MergePatch(tgt, patch) ==
    IF patch.t # "obj" THEN patch
    ELSE LET t == IF tgt.t = "obj" THEN tgt ELSE EmptyObj
             removed == {k \in Keys(patch) : patch.v[k] = Null}
         IN Obj([k \in (Keys(t) \cup Keys(patch)) \ removed |->
                   IF k \in Keys(patch)
                   THEN MergePatch(IF k \in Keys(t) THEN t.v[k] ELSE Null, patch.v[k])
                   ELSE t.v[k]])

\* JSON_PATCH(valueJSON, JSON(:value))
JSON_PATCH(valueJSON, value) ==
    [t |-> "json", v |-> MergePatch(JSONParse(valueJSON), JSONParse(value))]

\* the values written by setItem and the patches given to multiMerge
StoredLeaf == {Num(1), Null, Arr(<<4>>)}
StoredNested == ObjectsOver({"b"}, {Num(2), Null})
StoredValues ==
    {Obj(f) : f \in UNION {
        {g \in [d -> StoredLeaf \cup StoredNested] : \A k \in d : (g[k] \in StoredNested => k = "a")}
        : d \in SUBSET MergeKeys}}
Patches ==
    {Arr(<<4>>)} \cup
    {Obj(f) : f \in UNION {
        {g \in [d -> StoredLeaf \cup StoredNested \cup {Undefined}] :
            \A k \in d : (g[k] \in StoredNested => k = "a")}
        : d \in SUBSET MergeKeys}}

StorageInit ==
    /\ target \in StoredValues
    /\ source \in Patches
    /\ merged = NotRun

\* setItem(key, target)
SetItem(key) ==
    /\ store' = [k \in DOMAIN store \cup {key} |->
                   IF k = key THEN JSONStringify(target) ELSE store[k]]
    /\ OnyxStep("setItem", NoCalls)
    /\ UNCHANGED <<subs, scheduled, ops, writeQueue, busy, updateOps, updatePromise, expected>>
    /\ UNCHANGED <<cacheVars, notOnyxVars>>

\* multiMerge([[key, source]]): the row is inserted, or on conflict patched
MultiMerge(key) ==
    /\ store' = [k \in DOMAIN store \cup {key} |->
                   IF k # key THEN store[k]
                   ELSE IF key \in DOMAIN store
                        THEN JSON_PATCH(store[key], JSONStringify(source))
                        ELSE JSONStringify(source)]
    /\ OnyxStep("multiMerge", NoCalls)
    /\ UNCHANGED <<subs, scheduled, ops, writeQueue, busy, updateOps, updatePromise, expected>>
    /\ UNCHANGED <<cacheVars, notOnyxVars>>

\* getItem(key): the value read back, null when there is no row
GetItem(key) ==
    /\ merged' = IF key \in DOMAIN store THEN JSONParse(store[key]) ELSE Null
    /\ UNCHANGED <<target, source>>
    /\ UNCHANGED notMergeVars

StorageNext ==
    \/ SetItem(TEST_KEY)
    \/ MultiMerge(TEST_KEY)
    \/ GetItem(TEST_KEY)

StorageSpecInit == QueueInit /\ StorageInit /\ CacheInit /\ TaskInit /\ OnyxInit

StorageSpec == StorageSpecInit /\ [][StorageNext]_vars

\* C34: when multiMerge patches a stored value, the value it persists is
\* fastMerge(stored value, patch), whatever the patch holds.
C34_PersistsWhatFastMergeGives ==
    [][onyxOp' = "multiMerge" /\ TEST_KEY \in DOMAIN store
          => JSONParse(store'[TEST_KEY]) = fastMerge(JSONParse(store[TEST_KEY]), source)]_vars

\* the same for patches that hold neither null nor undefined at any path
RECURSIVE HoldsNullish(_)
HoldsNullish(val) ==
    \/ val \in {Null, Undefined}
    \/ val.t = "obj" /\ \E k \in Keys(val) : HoldsNullish(val.v[k])
PersistsWhatFastMergeGivesWithoutNull ==
    [][onyxOp' = "multiMerge" /\ TEST_KEY \in DOMAIN store /\ ~HoldsNullish(source)
          => JSONParse(store'[TEST_KEY]) = fastMerge(JSONParse(store[TEST_KEY]), source)]_vars

(***************************************************************************)
(* OnyxCache: the size of the cache after eviction                         *)
(***************************************************************************)
\* the n most recently used keys
MostRecent(n) ==
    IF n >= Len(recentKeys) THEN SeqToSet(recentKeys)
    ELSE {recentKeys[i] : i \in (Len(recentKeys) - n + 1)..Len(recentKeys)}
\* the keys that have a cached value after the step
CachedAfter == {k \in DOMAIN storageMap' : storageMap'[k] # Undefined}

\* C35: after removeLeastRecentlyUsedKeys() with the limit N, at most N keys
\* have a cached value, and each of them is among the N most recently used keys.
C35_AtMostLimitKeysCached ==
    [][cacheOp' = "removeLeastRecentlyUsedKeys"
          => /\ Cardinality(CachedAfter) <= maxRecentKeysSize
             /\ CachedAfter \subseteq MostRecent(maxRecentKeysSize)]_vars

\* the same for limits of at least 1
AtMostLimitKeysCachedFromOne ==
    [][cacheOp' = "removeLeastRecentlyUsedKeys" /\ maxRecentKeysSize >= 1
          => /\ Cardinality(CachedAfter) <= maxRecentKeysSize
             /\ CachedAfter \subseteq MostRecent(maxRecentKeysSize)]_vars

(***************************************************************************)
(* OnyxCache pending tasks: a name captured again while it is pending      *)
(***************************************************************************)
\* the promise most recently passed to captureTask under the name
LatestCaptured(name) ==
    LET cs == {c \in Tasks : tasks[c].state # "unused" /\ tasks[c].name = name}
    IN  CHOOSE c \in cs : \A d \in cs : d <= c

\* C36: hasPendingTask(name) is true as long as the promise most recently
\* passed to captureTask(name, ...) has not settled.
C36_LatestPendingIsRecorded ==
    \A name \in ClientTaskNames :
        (/\ \E c \in Tasks : tasks[c].state # "unused" /\ tasks[c].name = name
         /\ tasks[LatestCaptured(name)].state = "pending")
        => hasPendingTask(name)

(***************************************************************************)
(* SyncQueue: the queue on which abort() is never called                   *)
(***************************************************************************)
NoAbortNext ==
    \/ PushOk
    \/ PushThrow
    \/ \E i \in Items, o \in {"resolve", "reject"} : Settle(i, o)
    \/ \E i \in Items : ThenStep(i)
    \/ \E i \in Items : CatchStep(i)
    \/ \E i \in Items : FinallyOk(i)
    \/ \E i \in Items : FinallyThrow(i)

NoAbortSpecInit == QueueInit /\ MergeIdle /\ CacheInit /\ TaskInit /\ OnyxInit

NoAbortSpec == NoAbortSpecInit /\ [][NoAbortNext]_vars

\* the executions whose promise has not settled or whose .finally reaction,
\* which takes the next item, has not run yet
InFlight == {i \in Items : exec[i] \in {"running", "settled", "thenDone", "catchDone"}}

\* C37: when abort() is never called, whenever an item waits in the queue
\* isProcessing is true and a worker execution is in flight.
C37_WaitingItemHasExecutionInFlight ==
    queue # <<>> => isProcessing /\ InFlight # {}

\* the same for a worker that never throws synchronously
WaitingItemHasExecutionInFlightNoThrow ==
    (queue # <<>> /\ \A i \in Items : exec[i] # "threw") => isProcessing /\ InFlight # {}

(***************************************************************************)
(* SyncQueue: abort() while executions are in flight.  The worker keeps    *)
(* its contract and every execution settles; the event loop runs every     *)
(* reaction that is ready.                                                 *)
(***************************************************************************)
AbortLiveNext ==
    \/ PushOk
    \/ Abort
    \/ \E i \in Items, o \in {"resolve", "reject"} : Settle(i, o)
    \/ \E i \in Items : ThenStep(i)
    \/ \E i \in Items : CatchStep(i)
    \/ \E i \in Items : FinallyOk(i)

AbortLiveSpecInit == QueueInit /\ MergeIdle /\ CacheInit /\ TaskInit /\ OnyxInit

AbortLiveSpec ==
    /\ AbortLiveSpecInit
    /\ [][AbortLiveNext]_vars
    /\ \A i \in Items :
          /\ WF_vars(\E o \in {"resolve", "reject"} : Settle(i, o))
          /\ WF_vars(ThenStep(i))
          /\ WF_vars(CatchStep(i))
          /\ WF_vars(FinallyOk(i))

\* the push promise of item i settled as its execution did
SettledWithOutcome(i) ==
    \/ outcome[i] = "resolve" /\ promise[i] = "resolved"
    \/ outcome[i] = "reject" /\ promise[i] = "rejected"

\* C38: abort() leaves every execution and every push promise as it is; an
\* execution that is in flight when abort() is called settles, its push promise
\* settles with its outcome, and the .finally reaction of an execution takes
\* the oldest item that waits in the queue then (an item pushed after the last
\* abort) and starts the worker for it.
C38_AbortDoesNotCancelExecution ==
    /\ [][lastOp' = "abort"
             => exec' = exec /\ outcome' = outcome /\ promise' = promise]_vars
    /\ \A i \in Items :
          (lastOp = "abort" /\ exec[i] = "running")
             ~> (exec[i] = "done" /\ SettledWithOutcome(i))
    /\ [][\A i \in Items :
             (exec[i] = "catchDone" /\ exec'[i] = "done" /\ queue # <<>>)
             => /\ exec'[Head(queue)] = "running"
                /\ queue' = Tail(queue)
                /\ Head(queue) \notin discarded]_vars

\* abort() was called while the execution for item 1 was in flight, items 2 and
\* 3 were pushed after it (2 started at its push, 3 waited): the execution for
\* item 1 has settled, its promise too, and its .finally reaction has started
\* the worker for item 3
C38_Witness ==
    /\ lastOp = "finally"
    /\ exec[1] = "done" /\ SettledWithOutcome(1)
    /\ exec[2] = "running" /\ exec[3] = "running"
    /\ discarded = {}
    /\ queue = <<>>

(***************************************************************************)
(* OnyxCache: the queries, called between the operations that change the   *)
(* cache and the pending-task records                                      *)
(***************************************************************************)
\* what a query returns: a boolean, a list of keys, a promise (NoTask: undefined)
Bool(b) == [t |-> "bool", v |-> b]
KeysOf(ks) == [t |-> "keys", v |-> ks]
PromiseOf(c) == [t |-> "promise", v |-> c]

\* [mutant of HasCacheForKey] hasCacheForKey(key) that reads the value with getValue(key)
HasCacheForKeyByGetValue(key) ==
    /\ recentKeys' = addToAccessedKeys(recentKeys, key)
    /\ UNCHANGED <<storageKeys, storageMap, maxRecentKeysSize>>
    /\ Called("hasCacheForKey", <<key>>, NoValues, Bool(hasCacheForKey(key)))
    /\ UNCHANGED notCacheVars

\* hasCacheForKey(key)
HasCacheForKey(key) ==
    /\ UNCHANGED <<storageKeys, recentKeys, storageMap, maxRecentKeysSize>>
    /\ Called("hasCacheForKey", <<key>>, NoValues, Bool(hasCacheForKey(key)))
    /\ UNCHANGED notCacheVars

\* hasValueChanged(key, value)
HasValueChanged(key, value) ==
    /\ UNCHANGED <<storageKeys, recentKeys, storageMap, maxRecentKeysSize>>
    /\ Called("hasValueChanged", <<key>>, [k \in {key} |-> value],
              Bool(hasValueChanged(key, value)))
    /\ UNCHANGED notCacheVars

\* getAllKeys()
GetAllKeys ==
    /\ UNCHANGED <<storageKeys, recentKeys, storageMap, maxRecentKeysSize>>
    /\ Called("getAllKeys", <<>>, NoValues, KeysOf(getAllKeys))
    /\ UNCHANGED notCacheVars

\* hasPendingTask(taskName)
HasPendingTask(name) ==
    /\ UNCHANGED <<storageKeys, recentKeys, storageMap, maxRecentKeysSize>>
    /\ Called("hasPendingTask", <<name>>, NoValues, Bool(hasPendingTask(name)))
    /\ UNCHANGED notCacheVars

\* getTaskPromise(taskName)
GetTaskPromise(name) ==
    /\ UNCHANGED <<storageKeys, recentKeys, storageMap, maxRecentKeysSize>>
    /\ Called("getTaskPromise", <<name>>, NoValues, PromiseOf(getTaskPromise(name)))
    /\ UNCHANGED notCacheVars

QueryKeys == {"k1", "k2"}
QueryValue == Obj([k \in {"a"} |-> Num(1)])
QueryPatch == Obj([k \in {"b"} |-> Num(1)])
QueryTask == "task"

QueryNext ==
    \/ \E key \in QueryKeys : HasCacheForKey(key)
    \/ \E key \in QueryKeys, value \in {QueryValue, QueryPatch} : HasValueChanged(key, value)
    \/ GetAllKeys
    \/ HasPendingTask(QueryTask)
    \/ GetTaskPromise(QueryTask)
    \/ \E key \in QueryKeys : AddKey(key)
    \/ \E key \in QueryKeys : GetValue(key)
    \/ \E key \in QueryKeys : Set(key, QueryValue)
    \/ \E key \in QueryKeys : Drop(key)
    \/ \E key \in QueryKeys : Merge(<<key>>, [k \in {key} |-> QueryPatch])
    \/ RemoveLeastRecentlyUsedKeys
    \/ \E limit \in 0..MaxLimit : SetRecentKeysLimit(limit)
    \/ CaptureTask(QueryTask)
    \/ \E c \in Tasks : TaskSettles(c, "resolved")
    \/ \E c \in Tasks : Cleanup(c)

QuerySpecInit == QueueInit /\ MergeIdle /\ CacheInit /\ TaskInit /\ OnyxInit

QuerySpec == QuerySpecInit /\ [][QueryNext]_vars

QueryNames == {"hasCacheForKey", "hasValueChanged", "getAllKeys", "hasPendingTask",
               "getTaskPromise"}
\* the step is a call of a query (the call and its result are recorded)
QueryStep ==
    /\ cacheOp' \in QueryNames
    /\ <<cacheOp, opKeys, opValues, cacheRet>>' # <<cacheOp, opKeys, opValues, cacheRet>>
\* the recently used keys after the step are those before it, some removed
OnlyRemoved == recentKeys' = SelectSeq(recentKeys, LAMBDA x : x \in SeqToSet(recentKeys'))

\* C39: a call of hasCacheForKey, hasValueChanged, getAllKeys, hasPendingTask or
\* getTaskPromise leaves the value map, the known keys, the pending-task records
\* and the order of the recently used keys as they are; a step that puts a key
\* at the most recent position is a call of getValue, set or merge.
C39_QueriesChangeNothing ==
    /\ [][QueryStep => UNCHANGED <<storageMap, storageKeys, pendingPromises, recentKeys>>]_vars
    /\ [][~OnlyRemoved => cacheOp' \in {"getValue", "set", "merge"}]_vars

\* hasCacheForKey(k1) was called and answered true while k1 was not the most
\* recently used key and a task was pending: k2 is still the most recent key
C39_Witness ==
    /\ cacheOp = "hasCacheForKey" /\ opKeys = <<"k1">> /\ cacheRet = Bool(TRUE)
    /\ recentKeys = <<"k1", "k2">>
    /\ hasPendingTask(QueryTask)

(***************************************************************************)
(* fastMerge on values that hold Date and RegExp objects.  Such an object  *)
(* is a value of its own tag; v holds its own enumerable properties.       *)
(***************************************************************************)
DateOf(f) == [t |-> "date", v |-> f]
RegExpOf(f) == [t |-> "regexp", v |-> f]
NoFields == [k \in {} |-> Null]
\* a Date, a RegExp, and a Date that was given a property x holding an object
Date0 == DateOf(NoFields)
RegExp0 == RegExpOf(NoFields)
DateX == DateOf([k \in {"x"} |-> Obj([j \in {"p"} |-> Num(1)])])
OpaqueLeaf ==
    {Num(1), Date0, RegExp0, DateX,
     Obj([k \in {"x"} |-> Num(2)]), Obj([k \in {"x"} |-> Obj([j \in {"q"} |-> Num(2)])])}
OpaqueValues == ObjectsOver(MergeKeys, OpaqueLeaf)

OpaqueInit ==
    /\ target \in OpaqueValues
    /\ source \in OpaqueValues
    /\ merged = NotRun

OpaqueNext == DoMerge

OpaqueSpecInit == QueueInit /\ OpaqueInit /\ CacheInit /\ TaskInit /\ OnyxInit

OpaqueSpec == OpaqueSpecInit /\ [][OpaqueNext]_vars

IsOpaque(val) == val.t \in {"date", "regexp"}
\* a key at which base or patch holds a Date or RegExp
OpaqueAt(k) ==
    \/ k \in Keys(target) /\ IsOpaque(target.v[k])
    \/ k \in Keys(source) /\ IsOpaque(source.v[k])

\* C40: at every key where base or patch holds a Date or RegExp, the merged
\* value is the patch's value as it is when the patch has the key, and the
\* base's value as it is otherwise.
C40_DatesAreOpaque ==
    merged # NotRun
    => \A k \in Keys(target) \cup Keys(source) :
          OpaqueAt(k)
          => /\ k \in Keys(merged)
             /\ merged.v[k] = IF k \in Keys(source) THEN source.v[k] ELSE target.v[k]

\* the same for Date and RegExp objects without properties of their own
RECURSIVE HoldsOwnFields(_)
HoldsOwnFields(val) ==
    \/ IsOpaque(val) /\ Keys(val) # {}
    \/ val.t = "obj" /\ \E k \in Keys(val) : HoldsOwnFields(val.v[k])
DatesWithoutFieldsAreOpaque ==
    (merged # NotRun /\ ~HoldsOwnFields(target))
    => \A k \in Keys(target) \cup Keys(source) :
          OpaqueAt(k)
          => /\ k \in Keys(merged)
             /\ merged.v[k] = IF k \in Keys(source) THEN source.v[k] ELSE target.v[k]
====
